---- MODULE Spec2Model ----
(***************************************************************************)
(* Rule loading and matching engine of AgentHub: the RulesLoader (rule     *)
(* store and parsers) and the Linter (matcher).                            *)
(*                                                                         *)
(* Strings are sequences of atoms (characters, or whole words where the    *)
(* code never looks inside them).  A JSON/YAML value is a tagged record    *)
(* [k, v] with k the JavaScript type of the value.                         *)
(***************************************************************************)
EXTENDS Integers, Sequences, FiniteSets, TLC

\* ------------------------------------------------------------------ bounds
MaxEntries == 2
MaxReloadEntries == 1
MaxRules == 2
MaxFindings == 4
MaxElems == 2
MaxLines == 2
MaxTimers == 2
MaxFiles == 2
MaxGrowth == 1
MaxPrompt == 4

\* ------------------------------------------------------- string primitives
IsSpace(c) == c \in {" ", "\t"}

ToLowerCase(c) ==
    CASE c = "ERROR" -> "error"
      [] c = "Error" -> "error"
      [] c = "WARN" -> "warn"
      [] c = "Warn" -> "warn"
      [] c = "INFO" -> "info"
      [] c = ".JSON" -> ".json"
      [] c = "T" -> "t"
      [] c = "O" -> "o"
      [] c = "D" -> "d"
      [] OTHER -> c

Max(S) == CHOOSE x \in S : \A y \in S : y <= x
Min(S) == CHOOSE x \in S : \A y \in S : x <= y

\* String.prototype.trim
Trim(s) ==
    LET K == {i \in 1..Len(s) : ~IsSpace(s[i])}
    IN  IF K = {} THEN <<>> ELSE SubSeq(s, Min(K), Max(K))

\* String.prototype.split(sep) for a one-atom separator
RECURSIVE SplitOn(_, _)
SplitOn(s, sep) ==
    LET K == {i \in 1..Len(s) : s[i] = sep}
    IN  IF K = {} THEN <<s>>
        ELSE <<SubSeq(s, 1, Min(K) - 1)>> \o SplitOn(SubSeq(s, Min(K) + 1, Len(s)), sep)

\* positions where the two-character separator "::" starts
SepAt(s, i) == i + 1 <= Len(s) /\ s[i] = ":" /\ s[i + 1] = ":"

\* String.prototype.includes('::')
IncludesSep(s) == \E i \in 1..Len(s) : SepAt(s, i)

\* String.prototype.split('::'): leftmost non-overlapping occurrences
RECURSIVE SplitSep(_)
SplitSep(s) ==
    LET K == {i \in 1..Len(s) : SepAt(s, i)}
    IN  IF K = {} THEN <<s>>
        ELSE <<SubSeq(s, 1, Min(K) - 1)>> \o SplitSep(SubSeq(s, Min(K) + 2, Len(s)))

\* decimal rendering of a line number inside a template literal
NumToString(n) ==
    CASE n = 1 -> "1" [] n = 2 -> "2" [] n = 3 -> "3" [] n = 4 -> "4"
      [] n = 5 -> "5" [] n = 6 -> "6" [] n = 7 -> "7" [] n = 8 -> "8"
      [] OTHER -> "9+"

\* ------------------------------------------------------------ JSON values
Undefined == [k |-> "undefined", v |-> <<>>]
Str(s) == [k |-> "string", v |-> s]
Num == [k |-> "number", v |-> <<>>]
Arr(s) == [k |-> "array", v |-> s]

NoMatch == [k |-> "undefined", regex |-> Undefined, flags |-> Undefined,
            languages |-> Undefined, pathInclude |-> Undefined,
            pathExclude |-> Undefined]
MatchObj(regex, flags, languages, pathInclude, pathExclude) ==
    [k |-> "object", regex |-> regex, flags |-> flags, languages |-> languages,
     pathInclude |-> pathInclude, pathExclude |-> pathExclude]
NoFix == [k |-> "undefined", kind |-> Undefined, replaceWith |-> Undefined,
          insertText |-> Undefined, position |-> Undefined]

\* an element of a `rules` array: an object with these properties, or null
RuleObj(id, severity, message, match) ==
    [k |-> "object", id |-> id, severity |-> severity, message |-> message,
     match |-> match, fix |-> NoFix]
NullElem == [k |-> "null", id |-> Undefined, severity |-> Undefined,
             message |-> Undefined, match |-> NoMatch, fix |-> NoFix]

\* ---------------------------------------------------------------- parsers
isValidRule(rule) ==
    /\ rule.k = "object"
    /\ rule.id.k = "string"
    /\ rule.severity.k = "string"
    /\ rule.severity.v \in {<<"error">>, <<"warn">>, <<"info">>}
    /\ rule.message.k = "string"
    /\ rule.match.k = "object"
    /\ rule.match.regex.k = "string"

\* the loop ended by the first invalid element
RECURSIVE PushValidUntilInvalid(_, _)
PushValidUntilInvalid(elems, rules) ==
    IF elems = <<>> \/ ~isValidRule(Head(elems)) THEN rules
    ELSE PushValidUntilInvalid(Tail(elems), Append(rules, Head(elems)))

\* the for loop over data.rules: valid elements are pushed, others logged
RECURSIVE PushValid(_, _)
PushValid(elems, rules) ==
    IF elems = <<>> THEN rules
    ELSE PushValid(Tail(elems),
                   IF isValidRule(Head(elems)) THEN Append(rules, Head(elems))
                   ELSE rules)

\* content of a structured file: parseable says whether yaml.parse /
\* JSON.parse accepts it, data is the parsed top-level value
\* result: threw says whether the parser rethrew the parse exception
parseYamlRules(content, rules) ==
    IF ~content.parseable THEN [rules |-> rules, threw |-> TRUE]
    ELSE IF content.data.k # "object" \/ content.data.rules.k # "array"
         THEN [rules |-> rules, threw |-> FALSE]
         ELSE [rules |-> PushValid(content.data.rules.v, rules), threw |-> FALSE]

parseJsonRules(content, rules) ==
    IF ~content.parseable THEN [rules |-> rules, threw |-> TRUE]
    ELSE IF content.data.k # "object" \/ content.data.rules.k # "array"
         THEN [rules |-> rules, threw |-> FALSE]
         ELSE [rules |-> PushValid(content.data.rules.v, rules), threw |-> FALSE]

\* /^(error|warn|info):\s*(.+?)\s*::\s*(.+)$/i on a trimmed line t.
\* LineSeps: where a "::" followed by at least one character starts.
\* <<s, b>> in LineRegexSplits: the first \s* takes s characters, group 2
\* is t[3+s..b], and only white space lies between b and a "::".
LineSeps(t) == {i \in 3..(Len(t) - 2) : SepAt(t, i)}
LineRegexSplits(t) ==
    IF ~(Len(t) >= 2 /\ ToLowerCase(t[1]) \in {"error", "warn", "info"} /\ t[2] = ":")
    THEN {}
    ELSE LET Lead == {s \in 0..(Len(t) - 2) : \A i \in 3..(2 + s) : IsSpace(t[i])}
         IN  {sb \in Lead \X (3..Len(t)) :
                /\ sb[2] >= 3 + sb[1]
                /\ \E i \in LineSeps(t) :
                      i > sb[2] /\ \A j \in (sb[2] + 1)..(i - 1) : IsSpace(t[j])}

\* the split the backtracking engine finds first: \s* greedy, (.+?) lazy
LineRegexMatch(t) ==
    LET S == LineRegexSplits(t)
        s == Max({sb[1] : sb \in S})
        b == Min({sb[2] : sb \in {x \in S : x[1] = s}})
        sep == Min({i \in LineSeps(t) : i > b})
    IN  [severity |-> t[1],
         message |-> SubSeq(t, 3 + s, b),
         regex |-> SubSeq(t, sep + 2, Len(t))]

\* a text rule whose id leaves out the line number
TextRuleIdOfFile(fileName, lineNumber, severity, message, regex) ==
    RuleObj(Str(fileName), Str(<<severity>>), Str(message),
            MatchObj(Str(regex), Undefined, Undefined, Undefined, Undefined))

TextRule(fileName, lineNumber, severity, message, regex) ==
    RuleObj(Str(fileName \o <<"-line", NumToString(lineNumber)>>),
            Str(<<severity>>), Str(message),
            MatchObj(Str(regex), Undefined, Undefined, Undefined, Undefined))

\* parseTextRules' loop body that splits a line without severity on its
\* first separator
parseTextLineSplitsOnFirst(fileName, lineNumber, line, rules) ==
    LET trimmed == Trim(line)
    IN  IF trimmed = <<>> \/ trimmed[1] = "#" THEN rules
        ELSE IF LineRegexSplits(trimmed) # {}
        THEN LET m == LineRegexMatch(trimmed)
             IN  Append(rules, TextRule(fileName, lineNumber, ToLowerCase(m.severity),
                                        Trim(m.message), Trim(m.regex)))
        ELSE IF IncludesSep(trimmed)
        THEN LET i == Min({k \in 1..Len(trimmed) : SepAt(trimmed, k)})
             IN  Append(rules, TextRule(fileName, lineNumber, "warn",
                                        Trim(SubSeq(trimmed, 1, i - 1)),
                                        Trim(SubSeq(trimmed, i + 2, Len(trimmed)))))
        ELSE rules

\* parseTextRules' loop body that keeps the letter case of the severity
parseTextLineKeepsCase(fileName, lineNumber, line, rules) ==
    LET trimmed == Trim(line)
    IN  IF trimmed = <<>> \/ trimmed[1] = "#" THEN rules
        ELSE IF LineRegexSplits(trimmed) # {}
        THEN LET m == LineRegexMatch(trimmed)
             IN  Append(rules, TextRule(fileName, lineNumber, m.severity,
                                        Trim(m.message), Trim(m.regex)))
        ELSE IF IncludesSep(trimmed)
        THEN LET parts == SplitSep(trimmed)
             IN  IF Len(parts) = 2
                 THEN Append(rules, TextRule(fileName, lineNumber, "warn",
                                             Trim(parts[1]), Trim(parts[2])))
                 ELSE rules
        ELSE rules

\* body of the for loop of parseTextRules for one line
parseTextLine(fileName, lineNumber, line, rules) ==
    LET trimmed == Trim(line)
    IN  IF trimmed = <<>> \/ trimmed[1] = "#" THEN rules
        ELSE IF LineRegexSplits(trimmed) # {}
        THEN LET m == LineRegexMatch(trimmed)
             IN  Append(rules, TextRule(fileName, lineNumber, ToLowerCase(m.severity),
                                        Trim(m.message), Trim(m.regex)))
        ELSE IF IncludesSep(trimmed)
        THEN LET parts == SplitSep(trimmed)
             IN  IF Len(parts) = 2
                 THEN Append(rules, TextRule(fileName, lineNumber, "warn",
                                             Trim(parts[1]), Trim(parts[2])))
                 ELSE rules
        ELSE rules

RECURSIVE parseTextLines(_, _, _, _)
parseTextLines(fileName, lines, lineNumber, rules) ==
    IF lineNumber > Len(lines) THEN rules
    ELSE parseTextLines(fileName, lines, lineNumber + 1,
                        parseTextLine(fileName, lineNumber, lines[lineNumber], rules))

parseTextRules(fileName, content, rules) ==
    parseTextLines(fileName, SplitOn(content, "\n"), 1, rules)

\* a file entry: name (basename without extension), ext, readable (whether
\* readFileSync succeeds), content.  The catch of loadRulesFromFile logs
\* every exception of the try block, the parsers' rethrown ones included.
loadRulesFromFile(file, rules) ==
    LET ext == ToLowerCase(file.ext)
        try == IF ~file.readable THEN [rules |-> rules, threw |-> TRUE]
               ELSE IF ext \in {".yaml", ".yml"} THEN parseYamlRules(file.content, rules)
               ELSE IF ext = ".json" THEN parseJsonRules(file.content, rules)
               ELSE IF ext \in {".md", ".txt", ""}
                    THEN [rules |-> parseTextRules(<<file.name, file.ext>>, file.content.text, rules),
                          threw |-> FALSE]
               ELSE [rules |-> rules, threw |-> FALSE]
    IN  [rules |-> try.rules, threw |-> FALSE, caught |-> try.threw]

\* a directory: readable (whether readdirSync succeeds) and its entries.
\* result: the accumulated list, whether an exception left the traversal,
\* and whether the catch of loadRulesFromFile ran for some file
RECURSIVE loadRulesFromDirectory(_, _)
RECURSIVE LoadEntries(_, _, _)
LoadEntries(entries, i, acc) ==
    IF acc.threw \/ i > Len(entries) THEN acc
    ELSE LET entry == entries[i]
             r == IF entry.type = "dir" THEN loadRulesFromDirectory(entry, acc.rules)
                  ELSE loadRulesFromFile(entry, acc.rules)
         IN  LoadEntries(entries, i + 1,
                 [rules |-> r.rules, threw |-> r.threw, caught |-> acc.caught \/ r.caught])

loadRulesFromDirectory(dir, rules) ==
    IF ~dir.readable THEN [rules |-> rules, threw |-> TRUE, caught |-> FALSE]
    ELSE LoadEntries(dir.entries, 1, [rules |-> rules, threw |-> FALSE, caught |-> FALSE])

\* the warning the for loop of parseTextRules logs for one line, "" if none
parseTextLineWarning(line) ==
    LET trimmed == Trim(line)
    IN  IF trimmed = <<>> \/ trimmed[1] = "#" THEN ""
        ELSE IF LineRegexSplits(trimmed) # {} THEN ""
        ELSE IF IncludesSep(trimmed)
        THEN IF Len(SplitSep(trimmed)) = 2 THEN "" ELSE "Invalid rule format"
        ELSE "Skipping line without :: separator"

\* the warnings parseTextRules logs for a file: file path, line number, text
parseTextWarnings(filePath, content) ==
    LET lines == SplitOn(content, "\n")
    IN  {[file |-> filePath, line |-> n, warning |-> parseTextLineWarning(lines[n])] :
            n \in {k \in 1..Len(lines) : parseTextLineWarning(lines[k]) # ""}}

\* the warnings about lines that one traversal of the rules directory logs;
\* path: the names of the directories above dir
RECURSIVE loadRulesWarnings(_, _)
RECURSIVE LoadEntriesWarnings(_, _, _, _)
LoadEntriesWarnings(entries, i, path, acc) ==
    IF acc.threw \/ i > Len(entries) THEN acc
    ELSE LET entry == entries[i]
             r == IF entry.type = "dir"
                  THEN loadRulesWarnings(entry, Append(path, entry.name))
                  ELSE [warnings |->
                            IF entry.readable /\ ToLowerCase(entry.ext) \in {".md", ".txt", ""}
                            THEN parseTextWarnings(Append(path, <<entry.name, entry.ext>>),
                                                   entry.content.text)
                            ELSE {},
                        threw |-> FALSE]
         IN  LoadEntriesWarnings(entries, i + 1, path,
                 [warnings |-> acc.warnings \cup r.warnings, threw |-> r.threw])

loadRulesWarnings(dir, path) ==
    IF ~dir.readable THEN [warnings |-> {}, threw |-> TRUE]
    ELSE LoadEntriesWarnings(dir.entries, 1, path, [warnings |-> {}, threw |-> FALSE])

\* loadRules whose catch publishes the list accumulated so far
loadRulesKeepsPartial(dir, self) ==
    IF ~dir.exists
    THEN [rules |-> <<>>, lastGoodRules |-> self.lastGoodRules,
          hasShownMissingFolderInfo |-> TRUE,
          infoShown |-> ~self.hasShownMissingFolderInfo, errorShown |-> FALSE,
          outcome |-> "missing", newRules |-> <<>>, fileError |-> FALSE]
    ELSE LET try == loadRulesFromDirectory(dir, <<>>)
         IN  IF ~try.threw
             THEN [rules |-> try.rules, lastGoodRules |-> try.rules,
                   hasShownMissingFolderInfo |-> self.hasShownMissingFolderInfo,
                   infoShown |-> FALSE, errorShown |-> FALSE,
                   outcome |-> "loaded", newRules |-> try.rules, fileError |-> try.caught]
             ELSE [rules |-> try.rules, lastGoodRules |-> self.lastGoodRules,
                   hasShownMissingFolderInfo |-> self.hasShownMissingFolderInfo,
                   infoShown |-> FALSE, errorShown |-> TRUE,
                   outcome |-> "failed", newRules |-> try.rules, fileError |-> try.caught]

\* loadRules that accumulates into the active list instead of a fresh one
loadRulesInPlace(dir, self) ==
    IF ~dir.exists
    THEN [rules |-> <<>>, lastGoodRules |-> self.lastGoodRules,
          hasShownMissingFolderInfo |-> TRUE,
          infoShown |-> ~self.hasShownMissingFolderInfo, errorShown |-> FALSE,
          outcome |-> "missing", newRules |-> <<>>, fileError |-> FALSE]
    ELSE LET try == loadRulesFromDirectory(dir, self.rules)
             fresh == loadRulesFromDirectory(dir, <<>>)
         IN  IF ~try.threw
             THEN [rules |-> try.rules, lastGoodRules |-> try.rules,
                   hasShownMissingFolderInfo |-> self.hasShownMissingFolderInfo,
                   infoShown |-> FALSE, errorShown |-> FALSE,
                   outcome |-> "loaded", newRules |-> fresh.rules, fileError |-> try.caught]
             ELSE [rules |-> self.lastGoodRules, lastGoodRules |-> self.lastGoodRules,
                   hasShownMissingFolderInfo |-> self.hasShownMissingFolderInfo,
                   infoShown |-> FALSE, errorShown |-> TRUE,
                   outcome |-> "failed", newRules |-> fresh.rules, fileError |-> try.caught]

\* loadRules that tells of the missing folder on every call
loadRulesAlwaysNotifies(dir, self) ==
    IF ~dir.exists
    THEN [rules |-> <<>>, lastGoodRules |-> self.lastGoodRules,
          hasShownMissingFolderInfo |-> TRUE,
          infoShown |-> TRUE, errorShown |-> FALSE,
          outcome |-> "missing", newRules |-> <<>>, fileError |-> FALSE]
    ELSE loadRulesInPlace(dir, [self EXCEPT !.rules = <<>>])

\* loadRules whose success branch leaves the snapshot as it was
loadRulesKeepsSnapshot(dir, self) ==
    IF ~dir.exists
    THEN [rules |-> <<>>, lastGoodRules |-> self.lastGoodRules,
          hasShownMissingFolderInfo |-> TRUE,
          infoShown |-> ~self.hasShownMissingFolderInfo, errorShown |-> FALSE,
          outcome |-> "missing", newRules |-> <<>>, fileError |-> FALSE]
    ELSE LET try == loadRulesFromDirectory(dir, <<>>)
         IN  IF ~try.threw
             THEN [rules |-> try.rules, lastGoodRules |-> self.lastGoodRules,
                   hasShownMissingFolderInfo |-> self.hasShownMissingFolderInfo,
                   infoShown |-> FALSE, errorShown |-> FALSE,
                   outcome |-> "loaded", newRules |-> try.rules, fileError |-> try.caught]
             ELSE [rules |-> self.lastGoodRules, lastGoodRules |-> self.lastGoodRules,
                   hasShownMissingFolderInfo |-> self.hasShownMissingFolderInfo,
                   infoShown |-> FALSE, errorShown |-> TRUE,
                   outcome |-> "failed", newRules |-> try.rules, fileError |-> try.caught]

\* RulesLoader.loadRules on the rules directory dir; self holds the fields
\* of the loader.  infoShown / errorShown: the notifications of this call;
\* outcome: the branch that ended it; newRules: the local list at that
\* point; fileError: whether "Error reading file" was logged.
loadRules(dir, self) ==
    IF ~dir.exists
    THEN [rules |-> <<>>, lastGoodRules |-> self.lastGoodRules,
          hasShownMissingFolderInfo |-> TRUE,
          infoShown |-> ~self.hasShownMissingFolderInfo, errorShown |-> FALSE,
          outcome |-> "missing", newRules |-> <<>>, fileError |-> FALSE]
    ELSE LET try == loadRulesFromDirectory(dir, <<>>)
         IN  IF ~try.threw
             THEN [rules |-> try.rules, lastGoodRules |-> try.rules,
                   hasShownMissingFolderInfo |-> self.hasShownMissingFolderInfo,
                   infoShown |-> FALSE, errorShown |-> FALSE,
                   outcome |-> "loaded", newRules |-> try.rules, fileError |-> try.caught]
             ELSE [rules |-> self.lastGoodRules, lastGoodRules |-> self.lastGoodRules,
                   hasShownMissingFolderInfo |-> self.hasShownMissingFolderInfo,
                   infoShown |-> FALSE, errorShown |-> TRUE,
                   outcome |-> "failed", newRules |-> try.rules, fileError |-> try.caught]

\* ----------------------------------------------------------------- matcher
\* minimatch(filePath, pattern): paths and globs are sequences of segments;
\* "*" stands for one segment, "**" for any number of segments
RECURSIVE minimatch(_, _)
minimatch(filePath, pattern) ==
    IF pattern = <<>> THEN filePath = <<>>
    ELSE IF Head(pattern) = "**"
         THEN \/ minimatch(filePath, Tail(pattern))
              \/ filePath # <<>> /\ minimatch(Tail(filePath), pattern)
         ELSE /\ filePath # <<>>
              /\ Head(pattern) = "*" \/ Head(pattern) = Head(filePath)
              /\ minimatch(Tail(filePath), Tail(pattern))

\* a property holding a non-empty array (`x && x.length > 0`)
NonEmptyArray(x) == x.k = "array" /\ Len(x.v) > 0

\* shouldApplyRule that lets a matching pathInclude glob decide first
shouldApplyRuleIncludeFirst(rule, filePath, languageId) ==
    IF NonEmptyArray(rule.match.languages)
       /\ ~(\E i \in 1..Len(rule.match.languages.v) : rule.match.languages.v[i] = languageId)
    THEN FALSE
    ELSE IF NonEmptyArray(rule.match.pathInclude)
    THEN \E i \in 1..Len(rule.match.pathInclude.v) :
            minimatch(filePath, rule.match.pathInclude.v[i])
    ELSE IF NonEmptyArray(rule.match.pathExclude)
            /\ \E i \in 1..Len(rule.match.pathExclude.v) :
                  minimatch(filePath, rule.match.pathExclude.v[i])
    THEN FALSE
    ELSE TRUE

shouldApplyRule(rule, filePath, languageId) ==
    IF NonEmptyArray(rule.match.languages)
       /\ ~(\E i \in 1..Len(rule.match.languages.v) : rule.match.languages.v[i] = languageId)
    THEN FALSE
    ELSE IF NonEmptyArray(rule.match.pathExclude)
            /\ \E i \in 1..Len(rule.match.pathExclude.v) :
                  minimatch(filePath, rule.match.pathExclude.v[i])
    THEN FALSE
    ELSE IF NonEmptyArray(rule.match.pathInclude)
            /\ ~(\E i \in 1..Len(rule.match.pathInclude.v) :
                   minimatch(filePath, rule.match.pathInclude.v[i]))
    THEN FALSE
    ELSE TRUE

\* `rule.match.flags || 'g'`
FlagsOf(rule) ==
    IF rule.match.flags.k = "string" /\ rule.match.flags.v # <<>>
    THEN rule.match.flags.v ELSE <<"g">>

\* new RegExp(source, flags).  The pattern language: literal characters,
\* a postfix "*", and "(" which opens a group (never closed here).
\* ok = FALSE stands for the SyntaxError of the constructor.
RegExpFlagChars == {"d", "g", "i", "m", "s", "u", "v", "y"}
ValidFlags(flags) ==
    /\ \A i \in 1..Len(flags) : flags[i] \in RegExpFlagChars
    /\ \A i, j \in 1..Len(flags) : i # j => flags[i] # flags[j]
    /\ ~({"u", "v"} \subseteq {flags[i] : i \in 1..Len(flags)})
ValidSource(source) ==
    /\ \A i \in 1..Len(source) : source[i] # "(" /\ source[i] # ")"
    /\ \A i \in 1..Len(source) :
          source[i] = "*" => i > 1 /\ source[i - 1] # "*"
\* the atoms of a valid source: a character and whether a "*" follows it
Atoms(source) ==
    LET K == {i \in 1..Len(source) : source[i] # "*"}
        Nth(n) == CHOOSE i \in K : Cardinality({j \in K : j < i}) = n - 1
    IN  [n \in 1..Cardinality(K) |->
            [c |-> source[Nth(n)],
             star |-> Nth(n) < Len(source) /\ source[Nth(n) + 1] = "*"]]
NewRegExp(source, flags) ==
    [ok |-> ValidFlags(flags) /\ ValidSource(source),
     source |-> source,
     global |-> \E i \in 1..Len(flags) : flags[i] = "g",
     sticky |-> \E i \in 1..Len(flags) : flags[i] = "y",
     ignoreCase |-> \E i \in 1..Len(flags) : flags[i] = "i"]

CharEq(a, b, ignoreCase) ==
    IF ignoreCase THEN ToLowerCase(a) = ToLowerCase(b) ELSE a = b

\* Tries: pairs <<n, e>> where the atom takes n characters and e is the end
\* of the match of the remaining atoms, or -1.  The greedy atom keeps the
\* largest n that lets the rest match.
FirstEnd(Tries) ==
    LET Ok == {t \in Tries : t[2] # -1}
    IN  IF Ok = {} THEN -1
        ELSE (CHOOSE t \in Ok : \A u \in Ok : u[1] <= t[1])[2]

\* end offset of the match of atoms[k..] at offset p of text that the
\* backtracking engine finds first, or -1
RECURSIVE MatchEnd(_, _, _, _, _)
MatchEnd(atoms, k, text, p, ignoreCase) ==
    IF k > Len(atoms) THEN p
    ELSE CHOOSE r \in
            {FirstEnd(Tries) : Tries \in
                {{<<n, MatchEnd(atoms, k + 1, text, p + n, ignoreCase)>> :
                    n \in {n \in 0..(Len(text) - p) :
                             /\ atoms[k].star \/ n = 1
                             /\ \A i \in 1..n :
                                   CharEq(text[p + i], atoms[k].c, ignoreCase)}}}} : TRUE

\* Ends: pairs <<i, e>> of an offset the search tries and the end of the
\* match there, or -1.  The leftmost match is the result; match is FALSE
\* for null; lastIndex is the property of the regex object after the call.
ExecResult(re, last, Ends) ==
    LET useLast == re.global \/ re.sticky
        Hits == {t \in Ends : t[2] # -1}
        hit == CHOOSE t \in Hits : \A u \in Hits : t[1] <= u[1]
    IN  IF Hits = {}
        THEN [match |-> FALSE, index |-> 0, length |-> 0,
              lastIndex |-> IF useLast THEN 0 ELSE last]
        ELSE [match |-> TRUE, index |-> hit[1], length |-> hit[2] - hit[1],
              lastIndex |-> IF useLast THEN hit[2] ELSE last]

\* the search of exec over the compiled atoms: from lastIndex with the g
\* or y flag, from 0 otherwise; only at that offset with the y flag
ExecAtoms(atoms, re, text, last) ==
    LET start == IF re.global \/ re.sticky THEN last ELSE 0
        From == IF re.sticky THEN {start} ELSE start..Len(text)
    IN  CHOOSE r \in
            {ExecResult(re, last, Ends) : Ends \in
                {{<<i, MatchEnd(atoms, 1, text, i, re.ignoreCase)>> :
                    i \in {i \in From : i <= Len(text)}}}} : TRUE

\* RegExp.prototype.exec
exec(re, text, last) ==
    CHOOSE r \in {ExecAtoms(atoms, re, text, last) : atoms \in {Atoms(re.source)}} : TRUE

\* TextDocument.positionAt: line and character of an offset
positionAt(text, offset) ==
    LET off == IF offset > Len(text) THEN Len(text) ELSE offset
        Breaks == {i \in 1..off : text[i] = "\n"}
    IN  [line |-> Cardinality(Breaks),
         character |-> IF Breaks = {} THEN off ELSE off - Max(Breaks)]

getSeverity(severity) ==
    CASE severity = <<"error">> -> "Error"
      [] severity = <<"warn">> -> "Warning"
      [] severity = <<"info">> -> "Information"
      [] OTHER -> "Warning"

\* the Diagnostic pushed for a match of the rule at index ri of the list;
\* ri and fix are ghost fields: the index and the fix of the producing rule
Diagnostic(rule, ri, text, m) ==
    [start |-> positionAt(text, m.index),
     end |-> positionAt(text, m.index + m.length),
     message |-> rule.message.v,
     severity |-> getSeverity(rule.severity.v),
     code |-> rule.id.v,
     ri |-> ri,
     fix |-> rule.fix]

\* ------------------------------------------------- rules directory contents
pTODO == <<"T", "O", "D", "O">>
pStarA == <<"a", "*">>

PlainMatch(regex) == MatchObj(Str(regex), Undefined, Undefined, Undefined, Undefined)
RuleA == RuleObj(Str(<<"a">>), Str(<<"error">>), Str(<<"m">>), PlainMatch(pTODO))
RuleA2 == RuleObj(Str(<<"a">>), Str(<<"info">>), Str(<<"n">>), PlainMatch(pStarA))
RuleBadSeverity == RuleObj(Str(<<"b">>), Str(<<"bad">>), Str(<<"x">>), PlainMatch(<<"y">>))
RuleEmptyRegex == RuleObj(Str(<<"c">>), Str(<<"warn">>), Str(<<"m">>), PlainMatch(<<>>))

\* file contents: text is the character content seen by the line parser;
\* parseable / data are what yaml.parse / JSON.parse make of the content
Structured(elems) ==
    [parseable |-> TRUE, data |-> [k |-> "object", rules |-> Arr(elems)], text |-> <<>>]
Unparseable ==
    [parseable |-> FALSE, data |-> [k |-> "undefined", rules |-> Undefined], text |-> <<>>]
Text(t) ==
    [parseable |-> FALSE, data |-> [k |-> "undefined", rules |-> Undefined], text |-> t]

File(name, ext, content) ==
    [type |-> "file", name |-> name, ext |-> ext, readable |-> TRUE,
     content |-> content, entries |-> <<>>]
Dir(name, readable, entries) ==
    [type |-> "dir", name |-> name, ext |-> "", readable |-> readable,
     content |-> Text(<<>>), entries |-> entries]

TextA == <<"#", " ", "x", "\n", "error", ":", " ", "m", " ", ":", ":", " ">> \o pTODO
           \o <<"\n", "m", " ", ":", ":">>
TextB == <<"\n", "Warn", ":", "n", ":", ":", "a">>

EntryKinds ==
    { File("a", ".json", Structured(<<RuleA, RuleBadSeverity>>)),
      File("rules", ".md", Text(TextA)),
      File("bad", ".JSON", Unparseable),
      Dir("locked", FALSE, <<>>),
      Dir("sub", TRUE, <<File("rules", ".md", Text(TextB)),
                         File("b", ".yaml", Structured(<<RuleEmptyRegex, RuleA2>>)),
                         File("x", ".js", Text(TextB))>>),
      Dir("part", TRUE, <<File("c", ".yml", Structured(<<NullElem, RuleA2>>)),
                          Dir("locked", FALSE, <<>>)>>) }

\* the rules directory: missing, or a listing of at most n entries with
\* pairwise distinct names
MissingDir == [exists |-> FALSE, readable |-> FALSE, entries |-> <<>>]
DistinctNames(l) ==
    \A i, j \in 1..Len(l) : i # j => <<l[i].name, l[i].ext>> # <<l[j].name, l[j].ext>>
RulesDirs(n) ==
    {MissingDir} \cup
    {[exists |-> TRUE, readable |-> TRUE, entries |-> l] :
        l \in {x \in UNION {[1..k -> EntryKinds] : k \in 0..n} : DistinctNames(x)}}

\* ------------------------------------------- files of a one-file directory
RuleNoRegex ==
    RuleObj(Str(<<"d">>), Str(<<"error">>), Str(<<"m">>),
            MatchObj(Undefined, Undefined, Undefined, Undefined, Undefined))
RuleNumRegex ==
    RuleObj(Str(<<"e">>), Str(<<"error">>), Str(<<"m">>),
            MatchObj(Num, Undefined, Undefined, Undefined, Undefined))
RuleNumId == RuleObj(Num, Str(<<"info">>), Str(<<"m">>), PlainMatch(pTODO))
RuleNoMatch == RuleObj(Str(<<"g">>), Str(<<"warn">>), Str(<<"m">>), NoMatch)

ElemCandidates ==
    {RuleA, RuleA2, RuleBadSeverity, RuleEmptyRegex, NullElem,
     RuleNoRegex, RuleNumRegex, RuleNumId, RuleNoMatch}

LineCandidates ==
    { <<"error", ":", " ", "m", " ", ":", ":", " ">> \o pTODO,
      <<" ", "Warn", ":", "n", ":", ":", "a">>,
      <<"info", " ", "m", " ", ":", ":", " ", "a">>,
      <<"m", " ", ":", ":", " ", "a">>,
      <<"m", " ", ":", ":">>,
      <<"a", ":", ":", "b", ":", ":", "c">>,
      <<"error", ":", ":", ":", " ", "x">>,
      <<"ERROR", ":", "m", ":", ":", "a", ":", ":", "b">>,
      <<"#", " ", "m", " ", ":", ":", " ", "a">>,
      <<"n", "o">>,
      <<>> }

\* lines joined by line feeds
RECURSIVE JoinLines(_)
JoinLines(lines) ==
    IF Len(lines) = 0 THEN <<>>
    ELSE IF Len(lines) = 1 THEN lines[1]
    ELSE lines[1] \o <<"\n">> \o JoinLines(Tail(lines))

RuleFiles ==
    {File("r", ext, Structured(elems)) :
        ext \in {".json", ".yaml"},
        elems \in UNION {[1..k -> ElemCandidates] : k \in 0..MaxElems}}
    \cup
    {File("rules", ".md", Text(JoinLines(lines))) :
        lines \in UNION {[1..k -> LineCandidates] : k \in 0..MaxLines}}

IsStructuredFile(file) == ToLowerCase(file.ext) \in {".json", ".yaml", ".yml"}
IsTextFile(file) == ToLowerCase(file.ext) \in {".md", ".txt", ""}

\* ---------------------------------------------------------------- documents
\* uri.scheme, uri.fsPath (as segments), languageId and the initial text
Document(scheme, path, languageId, text) ==
    [scheme |-> scheme, path |-> path, languageId |-> languageId, text |-> text]

Documents ==
    << Document("file", <<"src", "a.ts">>, "ts", pTODO \o <<" ", "a">>),
       Document("file", <<"src", "test", "b.ts">>, "ts", <<"x", "\n">> \o pTODO),
       Document("file", <<"lib", "c.js">>, "js", <<"t", "o", "d", "o">>),
       Document("file", <<"src", "dist", "d.ts">>, "ts", pTODO),
       Document("untitled", <<"Untitled-1">>, "ts", pTODO) >>

DocIds == 1..Len(Documents)

\* the documents handed to linter.lint directly
WorkspaceDocs == {1, 2, 3}

\* ------------------------------------------------ active sets of the matcher
gSrc == <<"src", "**">>
gTest == <<"**", "test", "*">>

FilterRules ==
    {RuleObj(Str(<<"f">>), Str(<<"warn">>), Str(<<"m">>),
             MatchObj(Str(pTODO), Undefined, languages, pathInclude, pathExclude)) :
        languages \in {Undefined, Arr(<<>>), Arr(<<"ts">>)},
        pathInclude \in {Undefined, Arr(<<gSrc>>)},
        pathExclude \in {Undefined, Arr(<<gTest>>)}}

FlagRule(id, regex, flags) ==
    RuleObj(Str(<<id>>), Str(<<"info">>), Str(<<"m">>),
            MatchObj(Str(regex), flags, Undefined, Undefined, Undefined))

MatchRules ==
    FilterRules \cup
    { RuleA,
      FlagRule("i", pTODO, Str(<<"i">>)),
      FlagRule("gi", pTODO, Str(<<"g", "i">>)),
      FlagRule("star", pStarA, Undefined),
      FlagRule("paren", <<"(">>, Str(<<"g">>)),
      FlagRule("flag", pTODO, Str(<<"x">>)) }

RECURSIVE RuleLists(_)
RuleLists(n) ==
    IF n = 0 THEN {<<>>}
    ELSE RuleLists(n - 1) \cup
         {Append(l, r) : l \in {x \in RuleLists(n - 1) : Len(x) = n - 1}, r \in MatchRules}

\* ------------------------------------------------- the check-rules script
\* an element of a `rules` value that is a string: one of its characters
CharElem == [NullElem EXCEPT !.k = "string"]

\* rules.push(...data.rules): every element, unvalidated.  threw: the
\* spread of a number throws; a string spreads into its characters.
checkRulesPush(data, rules) ==
    IF data.k # "object" THEN [rules |-> rules, threw |-> FALSE]
    ELSE CASE data.rules.k = "array" ->
                [rules |-> rules \o data.rules.v, threw |-> FALSE]
           [] data.rules.k = "string" ->
                [rules |-> rules \o [i \in 1..Len(data.rules.v) |-> CharElem],
                 threw |-> FALSE]
           [] data.rules.k = "number" -> [rules |-> rules, threw |-> TRUE]
           [] OTHER -> [rules |-> rules, threw |-> FALSE]

\* the forEach callback of the text branch for one line
checkRulesTextLine(fileName, lineNumber, line, rules) ==
    LET trimmed == Trim(line)
    IN  IF trimmed = <<>> \/ trimmed[1] = "#" THEN rules
        ELSE IF LineRegexSplits(trimmed) # {}
        THEN LET m == LineRegexMatch(trimmed)
             IN  Append(rules, TextRule(fileName, lineNumber, ToLowerCase(m.severity),
                                        Trim(m.message), Trim(m.regex)))
        ELSE rules

RECURSIVE checkRulesTextLines(_, _, _, _)
checkRulesTextLines(fileName, lines, lineNumber, rules) ==
    IF lineNumber > Len(lines) THEN rules
    ELSE checkRulesTextLines(fileName, lines, lineNumber + 1,
                             checkRulesTextLine(fileName, lineNumber, lines[lineNumber],
                                                rules))

\* the body of the for loop of loadFromDirectory for a file entry: nothing
\* catches what readFileSync, yaml.parse, JSON.parse or the spread throw
checkRulesLoadFile(file, rules) ==
    LET ext == ToLowerCase(file.ext)
    IN  IF ~file.readable THEN [rules |-> rules, threw |-> TRUE]
        ELSE IF ext \in {".yaml", ".yml", ".json"}
        THEN IF ~file.content.parseable THEN [rules |-> rules, threw |-> TRUE]
             ELSE checkRulesPush(file.content.data, rules)
        ELSE IF ext \in {".md", ".txt", ""}
        THEN [rules |-> checkRulesTextLines(<<file.name, file.ext>>,
                                            SplitOn(file.content.text, "\n"), 1, rules),
              threw |-> FALSE]
        ELSE [rules |-> rules, threw |-> FALSE]

\* loadFromDirectory of the script
RECURSIVE checkRulesLoadFromDirectory(_, _)
RECURSIVE checkRulesLoadEntries(_, _, _)
checkRulesLoadEntries(entries, i, acc) ==
    IF acc.threw \/ i > Len(entries) THEN acc
    ELSE checkRulesLoadEntries(entries, i + 1,
            IF entries[i].type = "dir"
            THEN checkRulesLoadFromDirectory(entries[i], acc.rules)
            ELSE checkRulesLoadFile(entries[i], acc.rules))

checkRulesLoadFromDirectory(dir, rules) ==
    IF ~dir.readable THEN [rules |-> rules, threw |-> TRUE]
    ELSE checkRulesLoadEntries(dir.entries, 1, [rules |-> rules, threw |-> FALSE])

\* loadRules of the script
checkRulesLoadRules(dir) ==
    IF ~dir.exists THEN [rules |-> <<>>, threw |-> FALSE]
    ELSE checkRulesLoadFromDirectory(dir, <<>>)

\* `for (const pattern of x)` over a property that is an array; the
\* property is an array or absent in every rule of the inputs
checkRulesPatterns(x) == IF x.k = "array" THEN x.v ELSE <<>>
checkRulesTruthy(x) == x.k = "array" \/ (x.k = "string" /\ x.v # <<>>) \/ x.k = "number"

\* shouldApplyRule of the script.  threw: rule.match of an element that is
\* null, or rule.match.pathExclude of a rule without match
checkRulesShouldApplyRule(rule, filePath) ==
    IF rule.k = "null" \/ rule.match.k # "object"
    THEN [threw |-> TRUE, applies |-> FALSE]
    ELSE [threw |-> FALSE,
          applies |->
            /\ ~(checkRulesTruthy(rule.match.pathExclude)
                 /\ \E i \in 1..Len(checkRulesPatterns(rule.match.pathExclude)) :
                       minimatch(filePath, checkRulesPatterns(rule.match.pathExclude)[i]))
            /\ ~(checkRulesTruthy(rule.match.pathInclude)
                 /\ ~\E i \in 1..Len(checkRulesPatterns(rule.match.pathInclude)) :
                        minimatch(filePath, checkRulesPatterns(rule.match.pathInclude)[i]))]

\* the pattern new RegExp makes of rule.match.regex: undefined gives the
\* empty pattern; a number (1 in the inputs) gives its decimal text
checkRulesSource(rule) ==
    CASE rule.match.regex.k = "string" -> rule.match.regex.v
      [] rule.match.regex.k = "number" -> <<"1">>
      [] OTHER -> <<>>

\* the while loop of checkFile after n violations of the rule: the number
\* of violations pushed when exec returns null, or hangs.  Every exec call
\* depends on regex.lastIndex alone, which lies in 0..Len(content), so a
\* loop that has pushed more than Len(content) + 1 violations has been at
\* one lastIndex twice and never ends.
RECURSIVE checkRulesWhile(_, _, _, _)
checkRulesWhile(re, content, last, n) ==
    IF n > Len(content) + 1 THEN [hangs |-> TRUE, count |-> n]
    ELSE CHOOSE r \in
            {IF ~m.match THEN [hangs |-> FALSE, count |-> n]
             ELSE checkRulesWhile(re, content, m.lastIndex, n + 1) :
                m \in {exec(re, content, last)}} : TRUE

\* checkFile from the rule at index i on; acc.violations holds the
\* severity of each violation pushed so far
RECURSIVE checkFileFrom(_, _, _, _)
checkFileFrom(file, rules, i, acc) ==
    IF i > Len(rules) THEN acc
    ELSE CHOOSE r \in
        {IF a.threw THEN [acc EXCEPT !.threw = TRUE]
         ELSE IF ~a.applies THEN checkFileFrom(file, rules, i + 1, acc)
         ELSE CHOOSE r2 \in
            {IF ~re.ok THEN checkFileFrom(file, rules, i + 1, acc)
             ELSE CHOOSE r3 \in
                {IF w.hangs THEN [acc EXCEPT !.hangs = TRUE]
                 ELSE checkFileFrom(file, rules, i + 1,
                        [acc EXCEPT !.violations =
                            @ \o [k \in 1..w.count |-> rules[i].severity]]) :
                    w \in {checkRulesWhile(re, file.text, 0, 0)}} : TRUE :
                re \in {NewRegExp(checkRulesSource(rules[i]), FlagsOf(rules[i]))}} : TRUE :
            a \in {checkRulesShouldApplyRule(rules[i], file.path)}} : TRUE

\* checkFile: readFileSync of a file that cannot be read throws
checkFile(file, rules, acc) ==
    IF ~file.readable THEN [acc EXCEPT !.threw = TRUE]
    ELSE checkFileFrom(file, rules, 1, acc)

\* findFiles that skips no folder
checkRulesFindFilesEverywhere(files) == files

\* findFiles: the files of the tree that lie in none of the skipped folders
checkRulesFindFiles(files) ==
    SelectSeq(files, LAMBDA f :
        \A i \in 1..(Len(f.path) - 1) :
            f.path[i] \notin {"node_modules", ".git", "dist", "build", "out"})

\* the for loop of main over the files
RECURSIVE checkFiles(_, _, _, _)
checkFiles(files, rules, i, acc) ==
    IF acc.threw \/ acc.hangs \/ i > Len(files) THEN acc
    ELSE checkFiles(files, rules, i + 1, checkFile(files[i], rules, acc))

\* main: how the script ends.  An exception that nothing catches ends the
\* process with code 1; a loop that does not end keeps it from exiting.
ExitWith(run, code) ==
    [run EXCEPT !.exited = TRUE, !.code = code]
main(run) ==
    CHOOSE r \in
        {IF l.threw THEN ExitWith(run, 1)
         ELSE IF Len(l.rules) = 0 THEN ExitWith(run, 1)
         ELSE CHOOSE r2 \in
            {IF c.threw THEN ExitWith(run, 1)
             ELSE IF c.hangs THEN [run EXCEPT !.hangs = TRUE]
             ELSE IF Len(c.violations) = 0 THEN ExitWith(run, 0)
             ELSE ExitWith(run,
                    IF \E k \in 1..Len(c.violations) : c.violations[k] = Str(<<"error">>)
                    THEN 1 ELSE 0) :
                c \in {checkFiles(checkRulesFindFiles(run.files), l.rules, 1,
                                  [threw |-> FALSE, hangs |-> FALSE,
                                   violations |-> <<>>])}} : TRUE :
            l \in {checkRulesLoadRules(run.dir)}} : TRUE

\* ------------------------------------------------------------ quick fixes
\* the fix property of a rule
FixObj(kind, replaceWith, insertText, position) ==
    [k |-> "object", kind |-> kind, replaceWith |-> replaceWith,
     insertText |-> insertText, position |-> position]
WithFix(rule, fix) == [rule EXCEPT !.fix = fix]

\* an entry of a WorkspaceEdit: replace(uri, range, newText);
\* delete(uri, range) has the empty newText, insert(uri, position, newText)
\* the empty range at position
TextEdit(start, end, newText) == [start |-> start, end |-> end, newText |-> newText]

\* TextDocument.offsetAt, by which the host applies an edit: the start of
\* the line plus the character, both clamped to the text
offsetAt(text, position) ==
    LET Breaks == {i \in 1..Len(text) : text[i] = "\n"}
        line == IF position.line > Cardinality(Breaks) THEN Cardinality(Breaks)
                ELSE position.line
        lineStart == IF line = 0 THEN 0
                     ELSE CHOOSE i \in Breaks : Cardinality({j \in Breaks : j < i}) = line - 1
        After == {i \in Breaks : i > lineStart}
        lineEnd == IF After = {} THEN Len(text) ELSE Min(After) - 1
    IN  IF lineStart + position.character > lineEnd THEN lineEnd
        ELSE lineStart + position.character

\* the text after the host has applied the entries of a WorkspaceEdit
\* that holds at most one entry
ApplyEdit(text, edit) ==
    IF edit = <<>> THEN text
    ELSE SubSeq(text, 1, offsetAt(text, edit[1].start)) \o edit[1].newText
         \o SubSeq(text, offsetAt(text, edit[1].end) + 1, Len(text))

\* createFixAction returns undefined / a CodeAction
NoAction == [k |-> "undefined", title |-> <<>>, diagnostic |-> <<>>, edit |-> <<>>]
CodeAction(title, diagnostic, edit) ==
    [k |-> "action", title |-> title, diagnostic |-> diagnostic, edit |-> edit]

\* createFixAction that inserts at the start of the range whatever the
\* position is
createFixActionInsertsAtStart(diagnostic, rule) ==
    IF rule.fix.k # "object" THEN NoAction
    ELSE CASE rule.fix.kind = Str(<<"replace">>) ->
                CodeAction(<<"Fix: ">> \o rule.message.v, diagnostic,
                    IF rule.fix.replaceWith.k # "undefined"
                    THEN <<TextEdit(diagnostic.start, diagnostic.end,
                                    rule.fix.replaceWith.v)>>
                    ELSE <<>>)
           [] rule.fix.kind = Str(<<"delete">>) ->
                CodeAction(<<"Fix: ">> \o rule.message.v, diagnostic,
                    <<TextEdit(diagnostic.start, diagnostic.end, <<>>)>>)
           [] rule.fix.kind = Str(<<"insert">>) ->
                CodeAction(<<"Fix: ">> \o rule.message.v, diagnostic,
                    IF rule.fix.insertText.k # "undefined"
                    THEN <<TextEdit(diagnostic.start, diagnostic.start,
                                    rule.fix.insertText.v)>>
                    ELSE <<>>)
           [] OTHER -> NoAction

createFixAction(diagnostic, rule) ==
    IF rule.fix.k # "object" THEN NoAction
    ELSE CASE rule.fix.kind = Str(<<"replace">>) ->
                CodeAction(<<"Fix: ">> \o rule.message.v, diagnostic,
                    IF rule.fix.replaceWith.k # "undefined"
                    THEN <<TextEdit(diagnostic.start, diagnostic.end,
                                    rule.fix.replaceWith.v)>>
                    ELSE <<>>)
           [] rule.fix.kind = Str(<<"delete">>) ->
                CodeAction(<<"Fix: ">> \o rule.message.v, diagnostic,
                    <<TextEdit(diagnostic.start, diagnostic.end, <<>>)>>)
           [] rule.fix.kind = Str(<<"insert">>) ->
                CodeAction(<<"Fix: ">> \o rule.message.v, diagnostic,
                    IF rule.fix.insertText.k # "undefined"
                    THEN LET position == IF rule.fix.position = Str(<<"end">>)
                                         THEN diagnostic.end ELSE diagnostic.start
                         IN  <<TextEdit(position, position, rule.fix.insertText.v)>>
                    ELSE <<>>)
           [] OTHER -> NoAction

\* diagnostic.source: the linter's diagnostics carry the index of their
\* rule; index 0 marks a diagnostic of another extension
DiagnosticSource(diagnostic) == IF diagnostic.ri = 0 THEN "other" ELSE "agent-rules"

\* this.rulesLoader.getRules().find(r => r.id === ruleId): its index, or 0
FindRule(rules, ruleId) ==
    IF \E i \in 1..Len(rules) : rules[i].id.v = ruleId
    THEN Min({i \in 1..Len(rules) : rules[i].id.v = ruleId})
    ELSE 0

\* the body of the for loop of provideCodeActions for one diagnostic
provideCodeActionsFor(diagnostic, rules, codeActions) ==
    IF DiagnosticSource(diagnostic) # "agent-rules" THEN codeActions
    ELSE IF diagnostic.code = <<>> THEN codeActions
    ELSE IF FindRule(rules, diagnostic.code) = 0 THEN codeActions
    ELSE IF rules[FindRule(rules, diagnostic.code)].fix.k # "object" THEN codeActions
    ELSE IF createFixAction(diagnostic, rules[FindRule(rules, diagnostic.code)]).k
               = "undefined"
         THEN codeActions
    ELSE Append(codeActions,
                createFixAction(diagnostic, rules[FindRule(rules, diagnostic.code)]))

RECURSIVE provideCodeActionsFrom(_, _, _, _)
provideCodeActionsFrom(context, rules, i, codeActions) ==
    IF i > Len(context) THEN codeActions
    ELSE provideCodeActionsFrom(context, rules, i + 1,
                                provideCodeActionsFor(context[i], rules, codeActions))

provideCodeActions(context, rules) == provideCodeActionsFrom(context, rules, 1, <<>>)

\* no code action request has been made
NoCodeActions == [doc |-> 0, text |-> <<>>, fresh |-> FALSE, context |-> <<>>,
                  actions |-> <<>>]

\* ------------------------------------------------------------------- state
\* ---------------------------------------------- chat participant (prompts)
\* \w and [\w-] of the slash-command pattern, over the characters of prompts
IsWordChar(c) == c \in {"T", "t", "D", "d"}
IsNameChar(c) == IsWordChar(c) \/ c = "-"

\* String.prototype.toLowerCase
StringToLowerCase(s) == [k \in 1..Len(s) |-> ToLowerCase(s[k])]

\* (?:^|\s) followed by the sigil, tried at index i: the index of the sigil,
\* 0 when the pattern does not match there
SigilAt(s, i, sigil) ==
    IF i = 1 /\ i <= Len(s) /\ s[i] = sigil THEN i
    ELSE IF i + 1 <= Len(s) /\ IsSpace(s[i]) /\ s[i + 1] = sigil THEN i + 1
    ELSE 0

\* the index after the longest run of [\w-] / of [^\s@\/] that starts at i
NameEnd(s, i) ==
    Min({j \in i..(Len(s) + 1) : j = Len(s) + 1 \/ ~IsNameChar(s[j])})
TokenEnd(s, i) ==
    Min({j \in i..(Len(s) + 1) :
            j = Len(s) + 1 \/ IsSpace(s[j]) \/ s[j] \in {"@", "/"}})

\* matchAll(/(?:^|\s)\/([\w-]+)/g), from index i on: the captured names
RECURSIVE matchAllSlash(_, _)
matchAllSlash(s, i) ==
    LET K == {j \in i..Len(s) : SigilAt(s, j, "/") > 0
                                /\ NameEnd(s, SigilAt(s, j, "/") + 1)
                                    > SigilAt(s, j, "/") + 1}
        k == SigilAt(s, Min(K), "/")
    IN  IF K = {} THEN <<>>
        ELSE <<SubSeq(s, k + 1, NameEnd(s, k + 1) - 1)>>
             \o matchAllSlash(s, NameEnd(s, k + 1))

\* matchAll(/(?:^|\s)@([^\s@\/]+)/g), from index i on: the captured tokens
RECURSIVE matchAllAt(_, _)
matchAllAt(s, i) ==
    LET K == {j \in i..Len(s) : SigilAt(s, j, "@") > 0
                                /\ TokenEnd(s, SigilAt(s, j, "@") + 1)
                                    > SigilAt(s, j, "@") + 1}
        k == SigilAt(s, Min(K), "@")
    IN  IF K = {} THEN <<>>
        ELSE <<SubSeq(s, k + 1, TokenEnd(s, k + 1) - 1)>>
             \o matchAllAt(s, TokenEnd(s, k + 1))

\* replace(new RegExp(`(^|\\s)@${token}(?=$|\\s)`, 'g'), `$1@${match}`),
\* from index i on
RECURSIVE replaceToken(_, _, _, _)
replaceToken(s, i, token, match) ==
    LET e(k) == k + Len(token)
        K == {j \in i..Len(s) :
                /\ SigilAt(s, j, "@") > 0
                /\ e(SigilAt(s, j, "@")) <= Len(s)
                /\ SubSeq(s, SigilAt(s, j, "@") + 1, e(SigilAt(s, j, "@"))) = token
                /\ \/ e(SigilAt(s, j, "@")) = Len(s)
                   \/ IsSpace(s[e(SigilAt(s, j, "@")) + 1])}
        k == SigilAt(s, Min(K), "@")
    IN  IF K = {} THEN SubSeq(s, i, Len(s))
        ELSE SubSeq(s, i, k) \o match \o replaceToken(s, e(k) + 1, token, match)

\* the for loop over the resolutions
RECURSIVE replaceTokens(_, _, _, _)
replaceTokens(s, tokens, i, match) ==
    IF i > Len(tokens) THEN s
    ELSE replaceTokens(replaceToken(s, 1, tokens[i], match), tokens, i + 1, match)

\* extractLastSlashCommand of the token parsing tests
extractLastSlashCommand(prompt) ==
    LET promptLower == StringToLowerCase(prompt)
        matches == matchAllSlash(promptLower, 1)
    IN  IF Len(matches) > 0 THEN Str(matches[Len(matches)]) ELSE Undefined

\* the command the chat participant determines from request.command and the
\* normalized prompt
commandNameIgnoresAvailable(request, normalizedPrompt, availableCommands) ==
    IF request.command # Undefined THEN request.command
    ELSE extractLastSlashCommand(normalizedPrompt)

commandName(request, normalizedPrompt, availableCommands) ==
    IF request.command # Undefined THEN request.command
    ELSE LET promptLower == StringToLowerCase(normalizedPrompt)
             matches == matchAllSlash(promptLower, 1)
             extractedCommand ==
                 IF Len(matches) > 0 THEN Str(matches[Len(matches)]) ELSE Undefined
         IN  IF extractedCommand # Undefined
                /\ extractedCommand.v \in availableCommands
             THEN extractedCommand
             ELSE Undefined

\* no chat request has been handled
NoChat == [prompt |-> <<>>, command |-> Undefined, availableCommands |-> {},
           normalizedPrompt |-> <<>>, commandName |-> Undefined,
           reply |-> "none"]

\* the chat request handler of registerChatParticipant: the reply it
\* streams, and the command and the prompt it has determined by then.
\* found: the number of files findFiles returns for an @ token, match: the
\* relative path of the one file; model: whether a language model is there
chatRequestHandler(request, workspace, commandsDir, availableCommands, found, match, model) ==
    LET base == [prompt |-> request.prompt, command |-> request.command,
                 availableCommands |-> availableCommands,
                 normalizedPrompt |-> request.prompt,
                 commandName |-> Undefined, reply |-> "none"]
        atTokens == matchAllAt(request.prompt, 1)
        normalizedPrompt ==
            IF Len(atTokens) > 0
            THEN replaceTokens(request.prompt, atTokens, 1, match)
            ELSE request.prompt
        name == commandName(request, normalizedPrompt, availableCommands)
        determined == [base EXCEPT !.normalizedPrompt = normalizedPrompt,
                                   !.commandName = name]
    IN  IF ~workspace THEN [base EXCEPT !.reply = "No workspace folder open"]
        ELSE IF ~commandsDir THEN [base EXCEPT !.reply = "No commands folder found"]
        ELSE IF Len(atTokens) > 0 /\ found = 0
             THEN [base EXCEPT !.reply = "Unresolved @ reference(s)"]
        ELSE IF Len(atTokens) > 0 /\ found > 1
             THEN [base EXCEPT !.reply = "Ambiguous @ reference(s)"]
        ELSE IF name = Undefined
             THEN [determined EXCEPT !.reply = "Available slash commands"]
        ELSE IF name.v \notin availableCommands
             THEN [determined EXCEPT !.reply = "Command not found"]
        ELSE IF ~model
             THEN [determined EXCEPT !.reply = "No language model available"]
        ELSE [determined EXCEPT !.reply = "response"]

VARIABLES
    rules, lastGoodRules, hasShownMissingFolderInfo,   \* RulesLoader fields
    infoShown, errorShown,      \* notifications of the last loadRules call
    outcome, newRules,          \* how the last loadRules call ended, its newRules
    fileError,                  \* whether that call logged "Error reading file"
    lineWarnings,               \* the warnings about lines of text files it logged
    ruleFile,                   \* the file of the one-file directory (SpecFile)
    lastSuccess,                \* newRules of the last call that reached line 74
    diagnosticCollection,       \* Linter.diagnosticCollection, per document
    pc,                         \* position of the running lint call
    lintDoc, lintText, lintRules,   \* document, text, rules of the lint call
    ruleIdx, regex, lastIndex,  \* for loop index, compiled regex, regex.lastIndex
    diagnostics,                \* the local array of the lint call
    lintLog,                    \* indexes of the rules whose failure was logged
    applied,                    \* indexes of the rules that passed line 31
    tick,                       \* parity of the number of exec calls
    passTick,                   \* parity of the number of lint calls
    repeated,                   \* whether the last finished lint call was a repeat
    fresh,                      \* per document: linted since its text and the rules last changed
    docText,                    \* current text of each document
    opened,                     \* vscode.workspace.textDocuments
    liveTimers,                 \* per document, the timeouts set and neither fired nor cleared
    changeDebounceTimers,       \* per document, the timeout in the map (0: no entry)
    queue,                      \* documents the running callback has still to lint
    running,                    \* the callback that is running its forEach loop
    config,                     \* the agentRules configuration
    temporarilyDisabled,
    save,                       \* the save the onWillSave handler is dealing with
    disk,                       \* stored content of each document
    overrideLog,                \* "Save override" lines of the output channel
    cause,                      \* the caller of the last lintDocument or lint call
    command,                    \* per mode command: the running call, if any
    lastCommand,                \* the mode command that completed undisturbed last
    statusBar,                  \* statusBarItem: shown, text
    showStatusBar,              \* the agentRules.showStatusBar setting
    maxFilesToScan,             \* the agentRules.maxFilesToScan setting
    scan,                       \* the last scanWorkspace call
    cli,                        \* a run of the check-rules script
    codeActions,                \* what provideCodeActions returned last
    chat,                       \* the last request to the chat participant
    scanLoop,                   \* the scanWorkspace call that is awaiting, if any
    deactivated                 \* whether deactivate() has been called

loaderVars == <<rules, lastGoodRules, hasShownMissingFolderInfo,
                infoShown, errorShown, outcome, newRules, fileError, lineWarnings,
                lastSuccess>>
lintVars == <<diagnosticCollection, pc, lintDoc, lintText, lintRules,
              ruleIdx, regex, lastIndex, diagnostics, lintLog, applied, tick, passTick,
              repeated>>
hostVars == <<docText, opened, liveTimers, changeDebounceTimers, queue, running,
              config, temporarilyDisabled, save, disk, overrideLog, cause>>
modeVars == <<command, lastCommand, statusBar, showStatusBar>>
toolVars == <<maxFilesToScan, scan, cli, codeActions, chat, scanLoop, deactivated>>
vars == <<loaderVars, lintVars, ruleFile, hostVars, fresh, modeVars, toolVars>>

NoRegex == NewRegExp(<<>>, <<>>)

LintIdle ==
    /\ diagnosticCollection = [d \in DocIds |-> <<>>]
    /\ pc = "idle"
    /\ lintDoc = 0
    /\ lintText = <<>>
    /\ lintRules = <<>>
    /\ ruleIdx = 0
    /\ regex = NoRegex
    /\ lastIndex = 0
    /\ diagnostics = <<>>
    /\ lintLog = <<>>
    /\ applied = {}
    /\ tick = 0
    /\ passTick = 0
    /\ repeated = FALSE
    /\ fresh = [d \in DocIds |-> FALSE]

NoFile == File("", "", Text(<<>>))

\* the defaults of the agentRules settings read with config.get
DefaultConfig ==
    [enabled |-> TRUE, blockSaveOnErrors |-> FALSE, blockSaveOnWarnings |-> FALSE,
     allowSaveOverride |-> TRUE, requireOverrideReason |-> FALSE]

\* no save is being decided
NoSave == [phase |-> "none", doc |-> 0, allowOverride |-> FALSE,
           requireReason |-> FALSE, violationCount |-> 0,
           choice |-> "none", reason |-> Undefined, resolves |-> 0, rejects |-> 0]

\* updateStatusBar: the status bar item after the call
updateStatusBar(cfg, disabled, show, item) ==
    IF ~show THEN [item EXCEPT !.shown = FALSE]
    ELSE [shown |-> TRUE,
          text |-> IF ~cfg.enabled \/ disabled THEN "Agent Rules: Disabled"
                   ELSE IF cfg.blockSaveOnErrors /\ ~cfg.allowSaveOverride
                        THEN "Agent Rules: Strict"
                   ELSE IF cfg.blockSaveOnErrors \/ cfg.blockSaveOnWarnings
                        THEN "Agent Rules: Active"
                   ELSE "Agent Rules: Passive"]

\* the item made by createStatusBarItem
NewStatusBarItem == [shown |-> FALSE, text |-> ""]

CommandNames == {"enableStrictMode", "disableStrictMode", "toggleSaveBlocking"}

\* a command that is not running; step k > 0: its k-th config.update is
\* awaited.  alone: no other mode-change operation has started or has been
\* in progress since the command started.
NoCall == [step |-> 0, current |-> FALSE, alone |-> FALSE]
NoCommand == [name |-> "none", message |-> ""]

\* the limit scanWorkspace passes to findFiles
ScanCap == 2000

\* scanWorkspace has not run / the script has not run
NoScan == [done |-> FALSE, folder |-> FALSE, limit |-> 0, files |-> 0, linted |-> 0]
NoCli == [dir |-> [exists |-> FALSE, readable |-> FALSE, entries |-> <<>>],
          files |-> <<>>, exited |-> FALSE, hangs |-> FALSE, code |-> 0]

\* no scanWorkspace call is awaiting findFiles or openTextDocument
NoScanLoop == [phase |-> "none", files |-> <<>>]

\* no mode command has been invoked; the status bar as activate leaves it
ModeIdle ==
    /\ command = [c \in CommandNames |-> NoCall]
    /\ lastCommand = NoCommand
    /\ showStatusBar = TRUE
    /\ statusBar = updateStatusBar(config, temporarilyDisabled, showStatusBar,
                                   NewStatusBarItem)

\* no workspace scan, script run or code action request has been made
ToolsIdle ==
    /\ maxFilesToScan = ScanCap
    /\ scan = NoScan
    /\ cli = NoCli
    /\ codeActions = NoCodeActions
    /\ chat = NoChat
    /\ scanLoop = NoScanLoop
    /\ deactivated = FALSE

\* the extension host after activation with no document open
HostIdle ==
    /\ docText = [d \in DocIds |-> Documents[d].text]
    /\ opened = {}
    /\ liveTimers = [d \in DocIds |-> {}]
    /\ changeDebounceTimers = [d \in DocIds |-> 0]
    /\ queue = <<>>
    /\ running = "none"
    /\ config = DefaultConfig
    /\ temporarilyDisabled = FALSE
    /\ save = NoSave
    /\ disk = [d \in DocIds |-> Documents[d].text]
    /\ overrideLog = <<>>
    /\ cause = "none"
    /\ ModeIdle
    /\ ToolsIdle

LoaderNew ==
    /\ rules = <<>>
    /\ lastGoodRules = <<>>
    /\ hasShownMissingFolderInfo = FALSE
    /\ infoShown = FALSE
    /\ errorShown = FALSE
    /\ outcome = "none"
    /\ newRules = <<>>
    /\ fileError = FALSE
    /\ lineWarnings = {}
    /\ lastSuccess = <<>>

Init ==
    /\ LoaderNew
    /\ LintIdle
    /\ HostIdle
    /\ ruleFile = NoFile

\* RulesLoader.loadRules(workspaceRoot), the rules directory being dir
rulesLoaderLoadRules(dir) ==
    \E r \in {loadRules(dir, [rules |-> rules, lastGoodRules |-> lastGoodRules,
                                  hasShownMissingFolderInfo |-> hasShownMissingFolderInfo])} :
        /\ rules' = r.rules
        /\ lastGoodRules' = r.lastGoodRules
        /\ hasShownMissingFolderInfo' = r.hasShownMissingFolderInfo
        /\ infoShown' = r.infoShown
        /\ errorShown' = r.errorShown
        /\ outcome' = r.outcome
        /\ newRules' = r.newRules
        /\ fileError' = r.fileError
        /\ lineWarnings' = IF dir.exists THEN loadRulesWarnings(dir, <<>>).warnings
                           ELSE {}
        /\ lastSuccess' = IF r.outcome = "loaded" THEN r.newRules ELSE lastSuccess
        /\ fresh' = IF r.rules = rules THEN fresh ELSE [d \in DocIds |-> FALSE]

\* a call of loadRules() on its own
LoadRules(dir) ==
    /\ pc = "idle"
    /\ rulesLoaderLoadRules(dir)
    /\ UNCHANGED <<lintVars, ruleFile, modeVars, toolVars, hostVars>>

\* Linter.lint(document), lines 15-27: up to the for loop
lint(d) ==
    /\ passTick' = 1 - passTick
    /\ lintDoc' = d
    /\ lintRules' = rules
    /\ lintLog' = <<>>
    /\ applied' = {}
    /\ diagnostics' = <<>>
    /\ regex' = NoRegex
    /\ lastIndex' = 0
    /\ tick' = 0
    /\ IF Len(rules) = 0
       THEN /\ diagnosticCollection' = [diagnosticCollection EXCEPT ![d] = <<>>]
            /\ lintText' = <<>>
            /\ ruleIdx' = 0
            /\ pc' = "idle"
            /\ repeated' = fresh[d]
            /\ fresh' = [fresh EXCEPT ![d] = TRUE]
       ELSE /\ lintText' = docText[d]
            /\ ruleIdx' = 1
            /\ pc' = "for"
            /\ repeated' = FALSE
            /\ UNCHANGED <<diagnosticCollection, fresh>>

\* a call of linter.lint(document) on its own
LintStart(d) ==
    /\ pc = "idle"
    /\ lint(d)
    /\ cause' = "scan"
    /\ UNCHANGED <<loaderVars, ruleFile, modeVars, toolVars, docText, opened, liveTimers, changeDebounceTimers,
                   queue, running, config, temporarilyDisabled, save, disk, overrideLog>>

\* the for loop with the try around the whole loop: a rule whose pattern
\* does not compile ends the loop
LintRuleAbortsPass ==
    /\ pc = "for"
    /\ ruleIdx <= Len(lintRules)
    /\ \E rule \in {lintRules[ruleIdx]} :
       \E re \in {NewRegExp(rule.match.regex.v, FlagsOf(rule))} :
           IF ~shouldApplyRule(rule, Documents[lintDoc].path, Documents[lintDoc].languageId)
           THEN /\ ruleIdx' = ruleIdx + 1
                /\ UNCHANGED <<pc, regex, lintLog, applied>>
           ELSE IF ~re.ok
           THEN /\ lintLog' = Append(lintLog, ruleIdx)
                /\ applied' = applied \cup {ruleIdx}
                /\ ruleIdx' = Len(lintRules) + 1
                /\ UNCHANGED <<pc, regex>>
           ELSE /\ regex' = re
                /\ applied' = applied \cup {ruleIdx}
                /\ pc' = "while"
                /\ UNCHANGED <<ruleIdx, lintLog>>
    /\ lastIndex' = 0
    /\ UNCHANGED <<diagnosticCollection, lintDoc, lintText, lintRules, diagnostics, tick,
                   passTick, repeated, fresh>>
    /\ UNCHANGED <<loaderVars, ruleFile, modeVars, toolVars, hostVars>>

\* one iteration of the for loop up to the while loop: the applicability
\* check and the RegExp constructor inside the try
LintRule ==
    /\ pc = "for"
    /\ ruleIdx <= Len(lintRules)
    /\ \E rule \in {lintRules[ruleIdx]} :
       \E re \in {NewRegExp(rule.match.regex.v, FlagsOf(rule))} :
           IF ~shouldApplyRule(rule, Documents[lintDoc].path, Documents[lintDoc].languageId)
           THEN /\ ruleIdx' = ruleIdx + 1
                /\ UNCHANGED <<pc, regex, lintLog, applied>>
           ELSE IF ~re.ok
           THEN /\ lintLog' = Append(lintLog, ruleIdx)
                /\ applied' = applied \cup {ruleIdx}
                /\ ruleIdx' = ruleIdx + 1
                /\ UNCHANGED <<pc, regex>>
           ELSE /\ regex' = re
                /\ applied' = applied \cup {ruleIdx}
                /\ pc' = "while"
                /\ UNCHANGED <<ruleIdx, lintLog>>
    /\ lastIndex' = 0
    /\ UNCHANGED <<diagnosticCollection, lintDoc, lintText, lintRules, diagnostics, tick,
                   passTick, repeated, fresh>>
    /\ UNCHANGED <<loaderVars, ruleFile, modeVars, toolVars, hostVars>>

\* one evaluation of the while condition and, on a match, of the loop body.
\* The model records at most MaxFindings diagnostics of a call; the loop
\* itself goes on as the code's does.
LintExec ==
    /\ pc = "while"
    /\ \E m \in {exec(regex, lintText, lastIndex)} :
           /\ lastIndex' = m.lastIndex
           /\ IF m.match
              THEN /\ diagnostics' =
                        IF Len(diagnostics) < MaxFindings
                        THEN Append(diagnostics,
                                    Diagnostic(lintRules[ruleIdx], ruleIdx, lintText, m))
                        ELSE diagnostics
                   /\ UNCHANGED <<pc, ruleIdx>>
              ELSE /\ pc' = "for"
                   /\ ruleIdx' = ruleIdx + 1
                   /\ UNCHANGED diagnostics
    /\ tick' = 1 - tick
    /\ UNCHANGED <<diagnosticCollection, lintDoc, lintText, lintRules, regex, lintLog,
                   applied, passTick, repeated, fresh>>
    /\ UNCHANGED <<loaderVars, ruleFile, modeVars, toolVars, hostVars>>

\* line 66 as an append to the diagnostics the document already has
LintFinishAccumulates ==
    /\ pc = "for"
    /\ ruleIdx > Len(lintRules)
    /\ diagnosticCollection' =
          [diagnosticCollection EXCEPT ![lintDoc] = @ \o diagnostics]
    /\ pc' = "idle"
    /\ diagnostics' = <<>>
    /\ ruleIdx' = 0
    /\ regex' = NoRegex
    /\ lastIndex' = 0
    /\ tick' = 0
    /\ repeated' = fresh[lintDoc]
    /\ fresh' = [fresh EXCEPT ![lintDoc] = TRUE]
    /\ UNCHANGED <<lintDoc, lintText, lintRules, lintLog, applied, passTick>>
    /\ UNCHANGED <<loaderVars, ruleFile, modeVars, toolVars, hostVars>>

\* line 66: the diagnostics of the call replace those of the document
LintFinish ==
    /\ pc = "for"
    /\ ruleIdx > Len(lintRules)
    /\ diagnosticCollection' = [diagnosticCollection EXCEPT ![lintDoc] = diagnostics]
    /\ pc' = "idle"
    /\ diagnostics' = <<>>
    /\ ruleIdx' = 0
    /\ regex' = NoRegex
    /\ lastIndex' = 0
    /\ tick' = 0
    /\ repeated' = fresh[lintDoc]
    /\ fresh' = [fresh EXCEPT ![lintDoc] = TRUE]
    /\ UNCHANGED <<lintDoc, lintText, lintRules, lintLog, applied, passTick>>
    /\ UNCHANGED <<loaderVars, ruleFile, modeVars, toolVars, hostVars>>

LintStep == LintRule \/ LintExec \/ LintFinish

\* ------------------------------------------------------- extension host
\* minimatchPath(path, pattern) for a pattern "**/name/**": the pattern
\* becomes the unanchored regex .[^/]*/name/.[^/]*, which finds the
\* segment name with a character before its "/" and one after it.  (The
\* paths of the model have no other segment that a "." of name could match.)
minimatchPath(path, pattern) ==
    \E i \in 2..(Len(path) - 1) : path[i] = pattern[2]

ignoredPatterns ==
    << <<"**", "node_modules", "**">>, <<"**", ".git", "**">>, <<"**", "dist", "**">>,
       <<"**", "build", "**">>, <<"**", "out", "**">> >>

\* whether lintDocument returns before linter.lint
SkipsDocument(d) ==
    \/ Documents[d].scheme # "file"
    \/ \E i \in 1..Len(ignoredPatterns) : minimatchPath(Documents[d].path, ignoredPatterns[i])

\* lintDocument that lints whatever the scheme and the folder
lintDocumentUnconditional(d) == lint(d)

lintDocument(d) ==
    IF SkipsDocument(d) THEN UNCHANGED <<lintVars, fresh>> ELSE lint(d)

\* no callback is running: the host can deliver the next event
HostReady == pc = "idle" /\ running = "none"

\* the documents of a set in the order of vscode.workspace.textDocuments
RECURSIVE SeqOf(_)
SeqOf(S) ==
    IF S = {} THEN <<>>
    ELSE <<Min(S)>> \o SeqOf(S \ {Min(S)})

\* texts an edit can leave in document d: its initial text or another one
EditTexts(d) == {Documents[d].text, <<"o", "k">>}

\* the timeout setTimeout returns: one that is not live
NewTimer(live) == Min((1..MaxTimers) \ live)

\* onDidOpenTextDocument
OpenDocument(d) ==
    /\ HostReady
    /\ d \notin opened
    /\ opened' = opened \cup {d}
    /\ lintDocument(d)
    /\ cause' = "open"
    /\ UNCHANGED <<loaderVars, ruleFile, modeVars, toolVars, docText, liveTimers, changeDebounceTimers,
                   queue, running, config, temporarilyDisabled, save, disk, overrideLog>>

\* a document is closed: the extension has no handler for it
CloseDocument(d) ==
    /\ HostReady
    /\ d \in opened
    /\ ~(save.phase # "none" /\ save.doc = d)
    /\ opened' = opened \ {d}
    /\ UNCHANGED fresh
    /\ UNCHANGED cause
    /\ UNCHANGED <<loaderVars, lintVars, ruleFile, modeVars, toolVars, docText, liveTimers,
                   changeDebounceTimers, queue, running, config, temporarilyDisabled,
                   save, disk, overrideLog>>

\* the handler that sets a timeout without clearing the one in the map
ChangeDocumentStacksTimers(d, text) ==
    /\ HostReady
    /\ d \in opened
    /\ text # docText[d]
    /\ liveTimers[d] # 1..MaxTimers
    /\ docText' = [docText EXCEPT ![d] = text]
    /\ fresh' = [fresh EXCEPT ![d] = FALSE]
    /\ changeDebounceTimers' =
          [changeDebounceTimers EXCEPT ![d] = NewTimer(liveTimers[d])]
    /\ liveTimers' = [liveTimers EXCEPT ![d] = @ \cup {NewTimer(liveTimers[d])}]
    /\ UNCHANGED cause
    /\ UNCHANGED <<loaderVars, lintVars, ruleFile, modeVars, toolVars, opened, queue, running, config,
                   temporarilyDisabled, save, disk, overrideLog>>

\* onDidChangeTextDocument: an edit leaves text in document d
ChangeDocument(d, text) ==
    /\ HostReady
    /\ d \in opened
    /\ text # docText[d]
    /\ docText' = [docText EXCEPT ![d] = text]
    /\ fresh' = [fresh EXCEPT ![d] = FALSE]
    /\ \E cleared \in {IF changeDebounceTimers[d] # 0
                        THEN liveTimers[d] \ {changeDebounceTimers[d]}
                        ELSE liveTimers[d]} :
          /\ cleared # 1..MaxTimers
          /\ changeDebounceTimers' = [changeDebounceTimers EXCEPT ![d] = NewTimer(cleared)]
          /\ liveTimers' = [liveTimers EXCEPT ![d] = cleared \cup {NewTimer(cleared)}]
    /\ UNCHANGED cause
    /\ UNCHANGED <<loaderVars, lintVars, ruleFile, modeVars, toolVars, opened, queue, running, config,
                   temporarilyDisabled, save, disk, overrideLog>>

\* the callback of a debounce timeout of document d
TimerFires(d) ==
    /\ HostReady
    /\ \E t \in liveTimers[d] :
          liveTimers' = [liveTimers EXCEPT ![d] = @ \ {t}]
    /\ lintDocument(d)
    /\ changeDebounceTimers' = [changeDebounceTimers EXCEPT ![d] = 0]
    /\ cause' = "timer"
    /\ UNCHANGED <<loaderVars, ruleFile, modeVars, toolVars, docText, opened, queue, running, config,
                   temporarilyDisabled, save, disk, overrideLog>>

\* the rules watcher reports a create, change or delete, the rules
\* directory then being dir: reloadAndLint up to the forEach loop
RulesChanged(dir) ==
    /\ HostReady
    /\ rulesLoaderLoadRules(dir)
    /\ queue' = SeqOf(opened)
    /\ running' = "reloadAndLint"
    /\ UNCHANGED cause
    /\ UNCHANGED <<lintVars, ruleFile, modeVars, toolVars, docText, opened, liveTimers, changeDebounceTimers,
                   config, temporarilyDisabled, save, disk, overrideLog>>

\* the forEach loop that ends after its first call of the callback
ForEachLintFirstOnly ==
    /\ running = "reloadAndLint"
    /\ pc = "idle"
    /\ queue # <<>>
    /\ lintDocument(Head(queue))
    /\ queue' = <<>>
    /\ cause' = "reloadAndLint"
    /\ UNCHANGED <<loaderVars, ruleFile, modeVars, toolVars, docText, opened, liveTimers, changeDebounceTimers,
                   running, config, temporarilyDisabled, save, disk, overrideLog>>

\* the next call of the forEach callback, once the lint call before it has
\* returned
ForEachLint ==
    /\ running = "reloadAndLint"
    /\ pc = "idle"
    /\ queue # <<>>
    /\ lintDocument(Head(queue))
    /\ queue' = Tail(queue)
    /\ cause' = "reloadAndLint"
    /\ UNCHANGED <<loaderVars, ruleFile, modeVars, toolVars, docText, opened, liveTimers, changeDebounceTimers,
                   running, config, temporarilyDisabled, save, disk, overrideLog>>

\* reloadAndLint returns
ForEachDone ==
    /\ running = "reloadAndLint"
    /\ pc = "idle"
    /\ queue = <<>>
    /\ running' = "none"
    /\ UNCHANGED cause
    /\ UNCHANGED <<loaderVars, lintVars, ruleFile, modeVars, toolVars, fresh, docText, opened, liveTimers,
                   changeDebounceTimers, queue, config, temporarilyDisabled, save, disk,
                   overrideLog>>

\* the agentRules settings
Configs ==
    [enabled : BOOLEAN, blockSaveOnErrors : BOOLEAN, blockSaveOnWarnings : BOOLEAN,
     allowSaveOverride : BOOLEAN, requireOverrideReason : BOOLEAN]

\* the mode commands.  Each is the list of its config.update calls, every
\* one awaited, and the information message shown after the last.

\* enableStrictMode that leaves requireOverrideReason alone
enableStrictModeNoReason ==
    [updates |-> << <<"enabled", TRUE>>, <<"blockSaveOnErrors", TRUE>>,
                    <<"allowSaveOverride", TRUE>> >>,
     message |-> "Strict mode enabled"]

enableStrictMode ==
    [updates |-> << <<"enabled", TRUE>>, <<"blockSaveOnErrors", TRUE>>,
                    <<"allowSaveOverride", TRUE>>, <<"requireOverrideReason", TRUE>> >>,
     message |-> "Strict mode enabled"]

\* disableStrictMode that leaves blockSaveOnWarnings alone
disableStrictModeErrorsOnly ==
    [updates |-> << <<"blockSaveOnErrors", FALSE>> >>,
     message |-> "Strict mode disabled (passive mode)"]

disableStrictMode ==
    [updates |-> << <<"blockSaveOnErrors", FALSE>>, <<"blockSaveOnWarnings", FALSE>> >>,
     message |-> "Strict mode disabled (passive mode)"]

\* current: the value of blockSaveOnErrors read when the command starts
toggleSaveBlocking(current) ==
    [updates |-> << <<"blockSaveOnErrors", ~current>> >>,
     message |-> IF ~current THEN "Save blocking enabled" ELSE "Save blocking disabled"]

CommandBody(name, current) ==
    CASE name = "enableStrictMode" -> enableStrictMode
      [] name = "disableStrictMode" -> disableStrictMode
      [] name = "toggleSaveBlocking" -> toggleSaveBlocking(current)

\* the running commands after another mode-change operation starts
Disturbed(cmd) ==
    [c \in CommandNames |-> IF cmd[c].step = 0 THEN cmd[c]
                            ELSE [cmd[c] EXCEPT !.alone = FALSE]]

\* a mode command is invoked and runs up to its first await
CommandInvoked(name) ==
    /\ HostReady
    /\ command[name].step = 0
    /\ command' = [Disturbed(command) EXCEPT
                      ![name] = [step |-> 1,
                                 current |-> name = "toggleSaveBlocking"
                                             /\ config.blockSaveOnErrors,
                                 alone |-> \A c \in CommandNames : command[c].step = 0]]
    /\ lastCommand' = NoCommand
    /\ UNCHANGED <<loaderVars, lintVars, ruleFile, hostVars, fresh, statusBar,
                   showStatusBar, toolVars>>

\* an awaited config.update of a running command takes effect: the
\* setting is written, onDidChangeConfiguration calls updateStatusBar, and
\* the command runs on to its next await or to its end
CommandStep(name) ==
    /\ HostReady
    /\ command[name].step > 0
    /\ \E body \in {CommandBody(name, command[name].current)} :
       \E u \in {body.updates[command[name].step]} :
          /\ config' = [config EXCEPT ![u[1]] = u[2]]
          /\ statusBar' = updateStatusBar(config', temporarilyDisabled, showStatusBar,
                                          statusBar)
          /\ IF command[name].step < Len(body.updates)
             THEN /\ command' = [command EXCEPT ![name].step = @ + 1]
                  /\ UNCHANGED lastCommand
             ELSE /\ command' = [command EXCEPT ![name] = NoCall]
                  /\ lastCommand' = IF command[name].alone
                                    THEN [name |-> name, message |-> body.message]
                                    ELSE lastCommand
    /\ UNCHANGED <<loaderVars, lintVars, ruleFile, fresh, docText, opened, liveTimers,
                   changeDebounceTimers, queue, running, temporarilyDisabled, save,
                   disk, overrideLog, cause, showStatusBar, toolVars>>

\* the user changes the showStatusBar setting: onDidChangeConfiguration
ShowStatusBarChanged(show) ==
    /\ HostReady
    /\ showStatusBar' = show
    /\ statusBar' = updateStatusBar(config, temporarilyDisabled, show, statusBar)
    /\ UNCHANGED <<loaderVars, lintVars, ruleFile, hostVars, fresh, command,
                   lastCommand, toolVars>>

\* the command agentRules.temporarilyDisable
temporarilyDisable ==
    /\ HostReady
    /\ temporarilyDisabled' = ~temporarilyDisabled
    /\ statusBar' = updateStatusBar(config, temporarilyDisabled', showStatusBar,
                                    statusBar)
    /\ command' = Disturbed(command)
    /\ lastCommand' = NoCommand
    /\ UNCHANGED cause
    /\ UNCHANGED <<loaderVars, lintVars, ruleFile, showStatusBar, toolVars, fresh,
                   docText, opened, liveTimers, changeDebounceTimers, queue, running,
                   config, save, disk, overrideLog>>

\* diagnostics.filter(d => d.severity === severity).length
CountSeverity(ds, severity) ==
    Cardinality({k \in 1..Len(ds) : ds[k].severity = severity})

\* the save the handler lets through, and the save it suspends
Allowed(d) ==
    [phase |-> "writing", doc |-> d, allowOverride |-> FALSE, requireReason |-> FALSE,
     violationCount |-> 0, choice |-> "none", reason |-> Undefined,
     resolves |-> 0, rejects |-> 0]
Suspended(d, allowOverride, requireReason, violationCount) ==
    [phase |-> "prompt", doc |-> d, allowOverride |-> allowOverride,
     requireReason |-> requireReason, violationCount |-> violationCount,
     choice |-> "none", reason |-> Undefined, resolves |-> 0, rejects |-> 0]

\* handleSaveBlocking that counts diagnostics of every severity as errors
handleSaveBlockingCountsAll(d) ==
    \E ds \in {diagnosticCollection[d]} :
    \E errors \in {Len(ds)} :
    \E warnings \in {CountSeverity(ds, "Warning")} :
        IF ~config.enabled \/ temporarilyDisabled
        THEN save' = Allowed(d)
        ELSE IF ~config.blockSaveOnErrors /\ ~config.blockSaveOnWarnings
        THEN save' = Allowed(d)
        ELSE IF ~((config.blockSaveOnErrors /\ errors > 0)
                  \/ (config.blockSaveOnWarnings /\ warnings > 0))
        THEN save' = Allowed(d)
        ELSE save' = Suspended(d, config.allowSaveOverride, config.requireOverrideReason,
                               errors + warnings)

\* handleSaveBlocking up to showErrorMessage (lines 332-369)
handleSaveBlocking(d) ==
    \E ds \in {diagnosticCollection[d]} :
    \E errors \in {CountSeverity(ds, "Error")} :
    \E warnings \in {CountSeverity(ds, "Warning")} :
        IF ~config.enabled \/ temporarilyDisabled
        THEN save' = Allowed(d)
        ELSE IF ~config.blockSaveOnErrors /\ ~config.blockSaveOnWarnings
        THEN save' = Allowed(d)
        ELSE IF ~((config.blockSaveOnErrors /\ errors > 0)
                  \/ (config.blockSaveOnWarnings /\ warnings > 0))
        THEN save' = Allowed(d)
        ELSE save' = Suspended(d, config.allowSaveOverride, config.requireOverrideReason,
                               errors + warnings)

\* onWillSaveTextDocument: a save of document d is attempted.  overrideLog
\* holds the "Save override" lines written since the last attempt began.
WillSaveTextDocument(d) ==
    /\ HostReady
    /\ d \in opened
    /\ save.phase = "none"
    /\ handleSaveBlocking(d)
    /\ overrideLog' = <<>>
    /\ UNCHANGED cause
    /\ UNCHANGED <<loaderVars, lintVars, ruleFile, modeVars, toolVars, fresh, docText, opened, liveTimers,
                   changeDebounceTimers, queue, running, config, temporarilyDisabled, disk>>

\* the items of the error message; "undefined" is the dismissed message
PromptActionsWithOverride(allowOverride) == {"Fix Now", "Override & Save", "Cancel"}

PromptActions(allowOverride) ==
    IF allowOverride THEN {"Fix Now", "Override & Save", "Cancel"}
    ELSE {"Fix Now", "Cancel"}

\* the promise given to waitUntil is rejected: the host drops the save.
\* resolves and rejects count the calls of resolve and reject.
Rejected(choice, reason) ==
    [save EXCEPT !.phase = "none", !.choice = choice, !.reason = reason,
                 !.rejects = @ + 1]

\* the promise is resolved: the host goes on to write the document
Resolved(choice, reason) ==
    [save EXCEPT !.phase = "writing", !.choice = choice, !.reason = reason,
                 !.resolves = @ + 1]

\* showErrorMessage returns choice (lines 369-399, up to showInputBox)
PromptAnswered(choice) ==
    /\ HostReady
    /\ save.phase = "prompt"
    /\ choice \in PromptActions(save.allowOverride) \cup {"undefined"}
    /\ IF choice = "Fix Now" THEN save' = Rejected(choice, Undefined)
       ELSE IF choice = "Override & Save"
       THEN IF save.requireReason
            THEN save' = [save EXCEPT !.phase = "reason", !.choice = choice]
            ELSE save' = Resolved(choice, Undefined)
       ELSE save' = Rejected(choice, Undefined)
    /\ UNCHANGED cause
    /\ UNCHANGED <<loaderVars, lintVars, ruleFile, modeVars, toolVars, fresh, docText, opened, liveTimers,
                   changeDebounceTimers, queue, running, config, temporarilyDisabled, disk,
                   overrideLog>>

\* what showInputBox can return: undefined (dismissed), "" or a text
Reasons == {Undefined, Str(<<>>), Str(<<"h">>)}

\* the Override & Save branch that takes any return value for a reason
ReasonEnteredAcceptsEmpty(reason) ==
    /\ HostReady
    /\ save.phase = "reason"
    /\ overrideLog' = Append(overrideLog,
                             [reason |-> reason, violationCount |-> save.violationCount])
    /\ save' = Resolved(save.choice, reason)
    /\ UNCHANGED cause
    /\ UNCHANGED <<loaderVars, lintVars, ruleFile, modeVars, toolVars, fresh, docText, opened, liveTimers,
                   changeDebounceTimers, queue, running, config, temporarilyDisabled, disk>>

\* the Override & Save branch without the return after reject: resolve is
\* called after reject, and the promise stays rejected
ReasonEnteredNoReturn(reason) ==
    /\ HostReady
    /\ save.phase = "reason"
    /\ IF reason.k = "undefined" \/ reason.v = <<>>
       THEN save' = [save EXCEPT !.phase = "none", !.reason = reason,
                                 !.rejects = @ + 1, !.resolves = @ + 1]
       ELSE save' = Resolved(save.choice, reason)
    /\ overrideLog' = Append(overrideLog,
                             [reason |-> reason, violationCount |-> save.violationCount])
    /\ UNCHANGED cause
    /\ UNCHANGED <<loaderVars, lintVars, ruleFile, modeVars, toolVars, fresh, docText, opened, liveTimers,
                   changeDebounceTimers, queue, running, config, temporarilyDisabled, disk>>

\* showInputBox returns reason (lines 384-396)
ReasonEntered(reason) ==
    /\ HostReady
    /\ save.phase = "reason"
    /\ IF reason.k = "undefined" \/ reason.v = <<>>
       THEN /\ save' = Rejected(save.choice, reason)
            /\ UNCHANGED overrideLog
       ELSE /\ overrideLog' = Append(overrideLog,
                                     [reason |-> reason,
                                      violationCount |-> save.violationCount])
            /\ save' = Resolved(save.choice, reason)
    /\ UNCHANGED cause
    /\ UNCHANGED <<loaderVars, lintVars, ruleFile, modeVars, toolVars, fresh, docText, opened, liveTimers,
                   changeDebounceTimers, queue, running, config, temporarilyDisabled, disk>>

\* the host writes the document and fires onDidSaveTextDocument
DidSaveTextDocument ==
    /\ HostReady
    /\ save.phase = "writing"
    /\ disk' = [disk EXCEPT ![save.doc] = docText[save.doc]]
    /\ lintDocument(save.doc)
    /\ save' = [save EXCEPT !.phase = "none"]
    /\ cause' = "save"
    /\ UNCHANGED <<loaderVars, ruleFile, modeVars, toolVars, docText, opened, liveTimers, changeDebounceTimers,
                   queue, running, config, temporarilyDisabled, overrideLog>>

Next ==
    \/ \E dir \in RulesDirs(MaxReloadEntries) : LoadRules(dir)
    \/ \E d \in WorkspaceDocs : LintStart(d)
    \/ LintStep

Spec == Init /\ [][Next]_vars

\* the Rule Store on its own, over larger rules directories
NextStore == \E dir \in RulesDirs(MaxEntries) : LoadRules(dir)

SpecStore == Init /\ [][NextStore]_vars

\* loading a rules directory that holds exactly one file
InitFile ==
    /\ LoaderNew
    /\ LintIdle
    /\ HostIdle
    /\ ruleFile \in RuleFiles

LoadFile == LoadRules([exists |-> TRUE, readable |-> TRUE, entries |-> <<ruleFile>>])

NextFile == LoadFile

SpecFile == InitFile /\ [][NextFile]_vars

\* the matcher on its own: any list of valid rules is the active set (the
\* state after loading a structured file that holds them)
InitMatch ==
    /\ rules \in RuleLists(MaxRules)
    /\ lastGoodRules = rules
    /\ hasShownMissingFolderInfo = FALSE
    /\ infoShown = FALSE
    /\ errorShown = FALSE
    /\ outcome = "loaded"
    /\ newRules = rules
    /\ fileError = FALSE
    /\ lineWarnings = {}
    /\ lastSuccess = rules
    /\ LintIdle
    /\ HostIdle
    /\ ruleFile = NoFile

NextMatch ==
    \/ \E d \in WorkspaceDocs : LintStart(d)
    \/ LintStep

SpecMatch == InitMatch /\ [][NextMatch]_vars
FairSpecMatch == SpecMatch /\ WF_vars(LintStep)

\* the extension host scheduling passes: documents are opened, edited and
\* closed, debounce timers fire and the rules watcher reports changes
SchedDocs == {1, 2, 4}

\* contents of the rules directory when the watcher reports a change
WatchedDirs ==
    {[exists |-> TRUE, readable |-> TRUE, entries |-> <<f>>] :
        f \in {File("a", ".json", Structured(<<RuleA, RuleBadSeverity>>)),
               File("rules", ".md", Text(TextB)),
               File("c", ".yml", Structured(<<NullElem, RuleA2>>)),
               File("bad", ".JSON", Unparseable)}}

NextSched ==
    \/ \E d \in SchedDocs : OpenDocument(d)
    \/ \E d \in SchedDocs : CloseDocument(d)
    \/ \E d \in SchedDocs : \E text \in EditTexts(d) : ChangeDocument(d, text)
    \/ \E d \in SchedDocs : TimerFires(d)
    \/ \E dir \in WatchedDirs : RulesChanged(dir)
    \/ ForEachLint
    \/ ForEachDone
    \/ LintStep

SpecSched == Init /\ [][NextSched]_vars

\* a rule of each severity
RuleW == RuleObj(Str(<<"w">>), Str(<<"warn">>), Str(<<"m">>), PlainMatch(<<"a">>))
RuleI == RuleObj(Str(<<"i">>), Str(<<"info">>), Str(<<"m">>), PlainMatch(<<"O">>))

\* the state after loading a structured file that holds the rules rs
Loaded(rs) ==
    /\ rules = rs
    /\ lastGoodRules = rs
    /\ hasShownMissingFolderInfo = FALSE
    /\ infoShown = FALSE
    /\ errorShown = FALSE
    /\ outcome = "loaded"
    /\ newRules = rs
    /\ fileError = FALSE
    /\ lineWarnings = {}
    /\ lastSuccess = rs
    /\ ruleFile = NoFile

\* documents are opened, edited, saved and closed and debounce timers
\* fire, with the default settings and one error rule
InitOpenSave ==
    /\ Loaded(<<RuleA>>)
    /\ LintIdle
    /\ HostIdle

OpenSaveDocs == {1, 4, 5}

NextOpenSave ==
    \/ \E d \in OpenSaveDocs : OpenDocument(d)
    \/ \E d \in OpenSaveDocs : CloseDocument(d)
    \/ \E d \in OpenSaveDocs : \E text \in EditTexts(d) : ChangeDocument(d, text)
    \/ \E d \in OpenSaveDocs : TimerFires(d)
    \/ \E d \in OpenSaveDocs : WillSaveTextDocument(d)
    \/ DidSaveTextDocument
    \/ LintStep

SpecOpenSave == InitOpenSave /\ [][NextOpenSave]_vars

\* save blocking: one document is opened, edited and saved under any
\* settings, with rules of one or more severities
SaveRuleLists == {<<RuleA, RuleW, RuleI>>, <<RuleA, RuleI>>, <<RuleW, RuleI>>, <<RuleI>>}

InitSave ==
    /\ \E rs \in SaveRuleLists : Loaded(rs)
    /\ LintIdle
    /\ docText = [d \in DocIds |-> Documents[d].text]
    /\ opened = {}
    /\ liveTimers = [d \in DocIds |-> {}]
    /\ changeDebounceTimers = [d \in DocIds |-> 0]
    /\ queue = <<>>
    /\ running = "none"
    /\ config \in Configs
    /\ temporarilyDisabled = FALSE
    /\ save = NoSave
    /\ disk = [d \in DocIds |-> Documents[d].text]
    /\ overrideLog = <<>>
    /\ cause = "none"
    /\ ModeIdle
    /\ ToolsIdle

SaveDocs == {1}

NextSave ==
    \/ \E d \in SaveDocs : OpenDocument(d)
    \/ \E d \in SaveDocs : \E text \in EditTexts(d) : ChangeDocument(d, text)
    \/ \E d \in SaveDocs : TimerFires(d)
    \/ \E d \in SaveDocs : WillSaveTextDocument(d)
    \/ \E choice \in {"Fix Now", "Override & Save", "Cancel", "undefined"} :
          PromptAnswered(choice)
    \/ \E reason \in Reasons : ReasonEntered(reason)
    \/ DidSaveTextDocument
    \/ temporarilyDisable
    \/ LintStep

SpecSave == InitSave /\ [][NextSave]_vars

\* a lint call that has started keeps running; showErrorMessage and
\* showInputBox return: the user answers or dismisses what is shown, and
\* the event loop runs the continuation
FairSpecSave ==
    /\ SpecSave
    /\ WF_vars(LintStep)
    /\ SF_vars(\E choice \in {"Fix Now", "Override & Save", "Cancel", "undefined"} :
                  PromptAnswered(choice))
    /\ SF_vars(\E reason \in Reasons : ReasonEntered(reason))

\* the user changes the maxFilesToScan setting: onDidChangeConfiguration
MaxFilesToScanChanged(limit) ==
    /\ HostReady
    /\ maxFilesToScan' = limit
    /\ statusBar' = updateStatusBar(config, temporarilyDisabled, showStatusBar, statusBar)
    /\ UNCHANGED <<loaderVars, lintVars, ruleFile, hostVars, fresh, command, lastCommand,
                   showStatusBar, scan, cli, codeActions, chat, scanLoop,
                   deactivated>>

\* scanWorkspace in a workspace without a folder (folder = FALSE) or with
\* `files` files that can be opened as text outside the excluded folders:
\* findFiles returns at most ScanCap of them and linter.lint is called once
\* for each file returned.  scan records the setting at the time of the
\* call and the number of lint calls; the findings of these passes are
\* those of lint and are not recorded here.
scanWorkspace(folder, files) ==
    /\ HostReady
    /\ scan' = [done |-> TRUE, folder |-> folder, limit |-> maxFilesToScan,
                files |-> files,
                linted |-> IF folder THEN Min({files, ScanCap}) ELSE 0]
    /\ UNCHANGED <<loaderVars, lintVars, ruleFile, hostVars, fresh, modeVars,
                   maxFilesToScan, cli, codeActions, chat, scanLoop,
                   deactivated>>

\* values of the maxFilesToScan setting, and workspace sizes
ScanLimits == {1, 2, 100, 1999, 2000, 2001, 5000}
ScanSizes == {0, 1, 2, 3, 100, 101, 1999, 2000, 2001, 4999, 5000, 5001}

NextScan ==
    \/ \E limit \in ScanLimits : MaxFilesToScanChanged(limit)
    \/ \E folder \in BOOLEAN : \E files \in ScanSizes : scanWorkspace(folder, files)

SpecScan == Init /\ [][NextScan]_vars

\* the script is run in a workspace with the rules directory dir and the
\* files `files`
CheckRules(dir, files) ==
    /\ cli' = main([dir |-> dir, files |-> files, exited |-> FALSE, hangs |-> FALSE,
                    code |-> 0])
    /\ UNCHANGED <<loaderVars, lintVars, ruleFile, hostVars, fresh, modeVars,
                   maxFilesToScan, scan, codeActions, chat, scanLoop,
                   deactivated>>

\* a file of the workspace: its full path, whether it can be read, its text
WorkspaceFile(path, readable, text) == [path |-> path, readable |-> readable, text |-> text]

WorkspaceFiles ==
    { WorkspaceFile(<<"w", "src", "a.ts">>, TRUE, pTODO \o <<" ", "a">>),
      WorkspaceFile(<<"w", "lib", "c.js">>, TRUE, <<"a", "\n", "a">>),
      WorkspaceFile(<<"w", "ok.md">>, TRUE, <<"o", "k">>),
      WorkspaceFile(<<"w", "dist", "d.ts">>, TRUE, pTODO),
      WorkspaceFile(<<"w", "locked">>, FALSE, <<>>) }

WorkspaceTrees == UNION {[1..k -> WorkspaceFiles] : k \in 0..MaxFiles}

\* the .agent/rules directory of the workspace
CheckRulesDirs ==
    {MissingDir} \cup
    {[exists |-> TRUE, readable |-> TRUE, entries |-> l] :
        l \in { <<>>,
                <<File("a", ".json", Structured(<<RuleA>>))>>,
                <<File("w", ".yaml", Structured(<<RuleW, RuleI>>))>>,
                <<File("i", ".json", Structured(<<RuleI>>))>>,
                <<File("b", ".json", Structured(<<RuleBadSeverity, NullElem>>))>>,
                <<File("n", ".yml", Structured(<<RuleNoMatch, RuleA>>))>>,
                <<File("s", ".json", Structured(<<RuleA2>>))>>,
                <<File("f", ".json", Structured(<<FlagRule("i", pTODO, Str(<<"i">>)),
                                                 FlagRule("paren", <<"(">>, Str(<<"g">>))>>))>>,
                <<File("g", ".json", Structured(<<RuleNoRegex>>))>>,
                <<File("e", ".json", Structured(<<>>))>>,
                <<File("rules", ".md", Text(TextA))>>,
                <<File("rules", ".txt", Text(TextB))>>,
                <<File("bad", ".JSON", Unparseable), File("a", ".json", Structured(<<RuleA>>))>>,
                <<Dir("sub", TRUE, <<File("w", ".yaml", Structured(<<RuleW>>))>>),
                  File("x", ".js", Text(TextA))>>,
                <<Dir("locked", FALSE, <<>>)>> }}

NextCheckRules ==
    \E dir \in CheckRulesDirs : \E files \in WorkspaceTrees : CheckRules(dir, files)

SpecCheckRules == Init /\ [][NextCheckRules]_vars

\* a diagnostic another extension published for the start of a document
OtherDiagnostic ==
    [start |-> [line |-> 0, character |-> 0], end |-> [line |-> 0, character |-> 1],
     message |-> <<"m">>, severity |-> "Error", code |-> <<"a">>, ri |-> 0,
     fix |-> NoFix]

\* context.diagnostics of a request: the diagnostics of the document that
\* touch the requested range
Contexts(d) ==
    {diagnosticCollection[d], <<OtherDiagnostic>> \o diagnosticCollection[d]}
    \cup {<<diagnosticCollection[d][k]>> : k \in 1..Len(diagnosticCollection[d])}

\* the host asks the provider, registered for the file scheme, for the
\* code actions of document d.  codeActions records the request: the text
\* of the document and whether its diagnostics are those of that text.
ProvideCodeActions(d, context) ==
    /\ HostReady
    /\ d \in opened
    /\ Documents[d].scheme = "file"
    /\ codeActions' = [doc |-> d, text |-> docText[d], fresh |-> fresh[d],
                       context |-> context,
                       actions |-> provideCodeActions(context, rules)]
    /\ UNCHANGED <<loaderVars, lintVars, ruleFile, hostVars, fresh, modeVars,
                   maxFilesToScan, scan, cli, chat, scanLoop,
                   deactivated>>

\* the user picks the j-th code action of the last request while the
\* document is as it was: the host applies the edit and reports the change
ApplyCodeAction(j) ==
    /\ codeActions.doc # 0
    /\ j \in 1..Len(codeActions.actions)
    /\ docText[codeActions.doc] = codeActions.text
    /\ Len(docText[codeActions.doc]) < Len(Documents[codeActions.doc].text) + MaxGrowth
    /\ ChangeDocument(codeActions.doc,
                      ApplyEdit(docText[codeActions.doc], codeActions.actions[j].edit))

\* rules with fixes for the pattern TODO, and a rule for the "x" of b.ts
RuleX == RuleObj(Str(<<"x">>), Str(<<"warn">>), Str(<<"m">>), PlainMatch(<<"x">>))
FixX == <<"X">>
Fixes ==
    { NoFix,
      FixObj(Str(<<"replace">>), Str(FixX), Undefined, Undefined),
      FixObj(Str(<<"replace">>), Str(<<>>), Undefined, Undefined),
      FixObj(Str(<<"replace">>), Undefined, Str(FixX), Undefined),
      FixObj(Str(<<"delete">>), Str(FixX), Undefined, Undefined),
      FixObj(Str(<<"insert">>), Undefined, Str(FixX), Undefined),
      FixObj(Str(<<"insert">>), Undefined, Str(FixX), Str(<<"start">>)),
      FixObj(Str(<<"insert">>), Str(FixX), Str(FixX), Str(<<"end">>)),
      FixObj(Str(<<"insert">>), Str(FixX), Undefined, Str(<<"end">>)),
      FixObj(Str(<<"remove">>), Str(FixX), Str(FixX), Undefined),
      FixObj(Undefined, Str(FixX), Str(FixX), Undefined) }

\* a rule without fix that has the id of RuleA
RuleSameId == RuleObj(Str(<<"a">>), Str(<<"info">>), Str(<<"m">>), PlainMatch(<<"O">>))

FixRuleLists ==
    {<<WithFix(RuleA, fix)>> : fix \in Fixes}
    \cup {<<WithFix(RuleA, fix),
            WithFix(RuleX, FixObj(Str(<<"insert">>), Undefined, Str(<<"b">>), Str(<<"end">>)))>> :
             fix \in Fixes}
    \cup {<<RuleSameId, WithFix(RuleA, FixObj(Str(<<"delete">>), Undefined, Undefined, Undefined))>>,
          <<WithFix(RuleA, FixObj(Str(<<"delete">>), Undefined, Undefined, Undefined)), RuleSameId>>}

InitFix ==
    /\ \E rs \in FixRuleLists : Loaded(rs)
    /\ LintIdle
    /\ HostIdle

FixDocs == {2, 5}

NextFix ==
    \/ \E d \in FixDocs : OpenDocument(d)
    \/ \E d \in FixDocs : TimerFires(d)
    \/ \E d \in FixDocs : \E context \in Contexts(d) : ProvideCodeActions(d, context)
    \/ \E j \in 1..MaxFindings : ApplyCodeAction(j)
    \/ LintStep

SpecFix == InitFix /\ [][NextFix]_vars

\* ------------------------------------------- quick fixes under rule reloads
\* active sets of rules with the id of RuleA, alone and together
ReloadRuleLists ==
    {<<WithFix(RuleA, FixObj(Str(<<"replace">>), Str(FixX), Undefined, Undefined))>>,
     <<WithFix(RuleSameId, FixObj(Str(<<"delete">>), Undefined, Undefined, Undefined))>>,
     <<WithFix(RuleA, FixObj(Str(<<"delete">>), Undefined, Undefined, Undefined)),
       RuleSameId>>}

\* contents of the rules directory when the watcher reports a change: one
\* file with one of these sets, or no directory
ReloadDirs ==
    {[exists |-> TRUE, readable |-> TRUE,
      entries |-> <<File("r", ".json", Structured(rs))>>] : rs \in ReloadRuleLists}
    \cup {[exists |-> FALSE, readable |-> FALSE, entries |-> <<>>]}

InitFixReload ==
    /\ \E rs \in ReloadRuleLists : Loaded(rs)
    /\ LintIdle
    /\ HostIdle

ReloadDocs == {1, 2}

NextFixReload ==
    \/ \E d \in ReloadDocs : OpenDocument(d)
    \/ \E d \in ReloadDocs : CloseDocument(d)
    \/ \E d \in ReloadDocs : \E context \in Contexts(d) : ProvideCodeActions(d, context)
    \/ \E dir \in ReloadDirs : RulesChanged(dir)
    \/ ForEachLint
    \/ ForEachDone
    \/ LintStep

SpecFixReload == InitFixReload /\ [][NextFixReload]_vars

\* ------------------------------------------ the script and the editor engine
\* a rule for the language ts alone, whose pattern occurs in lib/c.js
RuleTsOnly ==
    RuleObj(Str(<<"l">>), Str(<<"warn">>), Str(<<"m">>),
            MatchObj(Str(<<"o">>), Undefined, Arr(<<"ts">>), Undefined, Undefined))

\* the one file of the rules directory both programs load
EquivFiles ==
    { File("r", ".json", Structured(<<RuleA, RuleW>>)),
      File("r", ".json", Structured(<<RuleA, RuleBadSeverity>>)),
      File("r", ".json", Structured(<<RuleTsOnly>>)),
      File("r", ".yaml", Unparseable),
      File("r", ".txt", Text(<<"error", ":", " ", "m", " ", ":", ":", " ">> \o pTODO)),
      File("r", ".md", Text(<<"m", " ", ":", ":", " ">> \o pTODO)) }

EquivDir == [exists |-> TRUE, readable |-> TRUE, entries |-> <<ruleFile>>]
EquivDocs == {1, 3}

\* the file of the workspace that document d shows
FileOf(d) == WorkspaceFile(Documents[d].path, TRUE, docText[d])

\* the script is run in the workspace of the editor, of whose files it
\* finds the one of document d
CheckRulesOn(d) == CheckRules(EquivDir, <<FileOf(d)>>)

InitEquiv ==
    /\ LoaderNew
    /\ LintIdle
    /\ HostIdle
    /\ ruleFile \in EquivFiles

NextEquiv ==
    \/ LoadFile
    \/ \E d \in EquivDocs : OpenDocument(d)
    \/ \E d \in EquivDocs : CloseDocument(d)
    \/ \E d \in EquivDocs : CheckRulesOn(d)
    \/ LintStep

SpecEquiv == InitEquiv /\ [][NextEquiv]_vars

\* the mode commands: one document is opened and saved while the commands
\* run and the session flag is flipped
ModeRuleLists == {<<RuleA, RuleW, RuleI>>, <<RuleW, RuleI>>}

InitMode ==
    /\ InitSave
    /\ rules \in ModeRuleLists

ModeDocs == {1}

NextMode ==
    \/ \E d \in ModeDocs : OpenDocument(d)
    \/ \E d \in ModeDocs : WillSaveTextDocument(d)
    \/ \E choice \in {"Fix Now", "Override & Save", "Cancel", "undefined"} :
          PromptAnswered(choice)
    \/ \E reason \in Reasons : ReasonEntered(reason)
    \/ DidSaveTextDocument
    \/ temporarilyDisable
    \/ \E name \in CommandNames : CommandInvoked(name)
    \/ \E name \in CommandNames : CommandStep(name)
    \/ LintStep

SpecMode == InitMode /\ [][NextMode]_vars

\* the status bar: the mode commands run, the session flag is flipped and
\* the status bar is switched off and on, from any settings
NextStatus ==
    \/ temporarilyDisable
    \/ \E name \in CommandNames : CommandInvoked(name)
    \/ \E name \in CommandNames : CommandStep(name)
    \/ \E show \in BOOLEAN : ShowStatusBarChanged(show)

SpecStatus == InitMode /\ [][NextStatus]_vars

\* ------------------------------------------ saves while Enable Strict Mode runs
StrictDocs == {1}

\* one document is opened and saved while Enable Strict Mode runs, from the
\* default settings: the settings change by the updates of the command
\* alone
InitStrict ==
    /\ InitMode
    /\ config = DefaultConfig

NextStrict ==
    \/ \E d \in StrictDocs : OpenDocument(d)
    \/ \E d \in StrictDocs : WillSaveTextDocument(d)
    \/ \E choice \in {"Fix Now", "Override & Save", "Cancel", "undefined"} :
          PromptAnswered(choice)
    \/ \E reason \in Reasons : ReasonEntered(reason)
    \/ DidSaveTextDocument
    \/ CommandInvoked("enableStrictMode")
    \/ CommandStep("enableStrictMode")
    \/ LintStep

SpecStrict == InitStrict /\ [][NextStrict]_vars

\* ------------------------------------------- settings change under a prompt
\* the user changes one of the agentRules settings in the settings editor:
\* onDidChangeConfiguration calls updateStatusBar
SettingChanged(key, value) ==
    /\ HostReady
    /\ config[key] # value
    /\ config' = [config EXCEPT ![key] = value]
    /\ statusBar' = updateStatusBar(config', temporarilyDisabled, showStatusBar,
                                    statusBar)
    /\ command' = Disturbed(command)
    /\ lastCommand' = NoCommand
    /\ UNCHANGED <<loaderVars, lintVars, ruleFile, fresh, docText, opened, liveTimers,
                   changeDebounceTimers, queue, running, temporarilyDisabled, save,
                   disk, overrideLog, cause, showStatusBar, toolVars>>

PromptDocs == {1}

\* saves are attempted and prompts answered while settings are changed,
\* Enable Strict Mode runs and the session flag is flipped
NextPrompt ==
    \/ \E d \in PromptDocs : OpenDocument(d)
    \/ \E d \in PromptDocs : WillSaveTextDocument(d)
    \/ \E choice \in {"Fix Now", "Override & Save", "Cancel", "undefined"} :
          PromptAnswered(choice)
    \/ \E reason \in Reasons : ReasonEntered(reason)
    \/ DidSaveTextDocument
    \/ temporarilyDisable
    \/ \E key \in {"allowSaveOverride", "requireOverrideReason"} :
          \E value \in BOOLEAN : SettingChanged(key, value)
    \/ CommandInvoked("enableStrictMode")
    \/ CommandStep("enableStrictMode")
    \/ LintStep

SpecPrompt == InitMode /\ [][NextPrompt]_vars

\* --------------------------------------------------- scan loop and shutdown
\* the scanWorkspace command in a workspace with a folder, up to its await
\* of findFiles; files: the files findFiles is going to return, in order
scanWorkspaceCalled(files) ==
    /\ HostReady
    /\ scanLoop.phase = "none"
    /\ scanLoop' = [phase |-> "findFiles", files |-> files]
    /\ UNCHANGED <<loaderVars, lintVars, ruleFile, hostVars, fresh, modeVars,
                   maxFilesToScan, scan, cli, codeActions, chat, deactivated>>

\* findFiles resolves: the for loop awaits openTextDocument for its first
\* file, or the scan is complete
scanWorkspaceFound ==
    /\ HostReady
    /\ scanLoop.phase = "findFiles"
    /\ scanLoop' = IF scanLoop.files = <<>> THEN NoScanLoop
                   ELSE [scanLoop EXCEPT !.phase = "openTextDocument"]
    /\ UNCHANGED <<loaderVars, lintVars, ruleFile, hostVars, fresh, modeVars,
                   maxFilesToScan, scan, cli, codeActions, chat, deactivated>>

\* openTextDocument settles for the next file.  If it opened a document
\* that was not open, the host first tells the onDidOpenTextDocument
\* listener, as long as the listener is registered; the loop body then goes
\* on with linter.lint.  If it failed, the catch skips the file.
scanWorkspaceOpened(ok) ==
    /\ HostReady
    /\ scanLoop.phase = "openTextDocument"
    /\ \E d \in {Head(scanLoop.files)} :
          IF ok
          THEN /\ scanLoop' = [scanLoop EXCEPT !.phase = "lint"]
               /\ running' = "scanWorkspace"
               /\ opened' = opened \cup {d}
               /\ IF d \notin opened /\ ~deactivated
                  THEN lintDocument(d) /\ cause' = "open"
                  ELSE UNCHANGED <<lintVars, fresh, cause>>
          ELSE /\ scanLoop' = IF Tail(scanLoop.files) = <<>> THEN NoScanLoop
                              ELSE [scanLoop EXCEPT !.files = Tail(@)]
               /\ UNCHANGED <<lintVars, fresh, cause, running, opened>>
    /\ UNCHANGED <<loaderVars, ruleFile, modeVars, maxFilesToScan, scan, cli,
                   codeActions, chat, deactivated, docText, liveTimers,
                   changeDebounceTimers, queue, config, temporarilyDisabled, save,
                   disk, overrideLog>>

\* the loop body's linter.lint(doc), and the await of the next file
scanWorkspaceLints ==
    /\ pc = "idle"
    /\ running = "scanWorkspace"
    /\ scanLoop.phase = "lint"
    /\ lint(Head(scanLoop.files))
    /\ cause' = "scan"
    /\ running' = "none"
    /\ scanLoop' = IF Tail(scanLoop.files) = <<>> THEN NoScanLoop
                   ELSE [phase |-> "openTextDocument", files |-> Tail(scanLoop.files)]
    /\ UNCHANGED <<loaderVars, ruleFile, modeVars, maxFilesToScan, scan, cli,
                   codeActions, chat, deactivated, docText, opened, liveTimers,
                   changeDebounceTimers, queue, config, temporarilyDisabled, save,
                   disk, overrideLog>>

\* deactivate(): the timeouts of the map are cleared, the map is emptied,
\* the rules watcher is disposed and the diagnostics are cleared; the host
\* then disposes the subscriptions of the extension
deactivate ==
    /\ HostReady
    /\ ~deactivated
    /\ liveTimers' = [d \in DocIds |-> liveTimers[d] \ {changeDebounceTimers[d]}]
    /\ changeDebounceTimers' = [d \in DocIds |-> 0]
    /\ diagnosticCollection' = [d \in DocIds |-> <<>>]
    /\ fresh' = [d \in DocIds |-> FALSE]
    /\ deactivated' = TRUE
    /\ UNCHANGED <<loaderVars, ruleFile, modeVars, maxFilesToScan, scan, cli,
                   codeActions, chat, scanLoop, docText, opened, queue, running,
                   config, temporarilyDisabled, save, disk, overrideLog, cause>>
    /\ UNCHANGED <<pc, lintDoc, lintText, lintRules, ruleIdx, regex, lastIndex,
                   diagnostics, lintLog, applied, tick, passTick, repeated>>

\* the files findFiles returns: files of the workspace outside the folders
\* its exclude pattern names
ScanFiles == {<<>>, <<1>>, <<2>>, <<1, 2>>}
ShutdownDocs == {1, 2}

\* events reach the listeners and commands of the extension until the host
\* has deactivated it; timeouts and awaiting calls go on regardless
NextShutdown ==
    \/ /\ ~deactivated
       /\ \/ \E d \in ShutdownDocs : OpenDocument(d)
          \/ \E d \in ShutdownDocs : \E text \in EditTexts(d) : ChangeDocument(d, text)
          \/ \E files \in ScanFiles : scanWorkspaceCalled(files)
    \/ \E d \in ShutdownDocs : TimerFires(d)
    \/ scanWorkspaceFound
    \/ \E ok \in BOOLEAN : scanWorkspaceOpened(ok)
    \/ scanWorkspaceLints
    \/ LintStep
    \/ deactivate

InitShutdown == InitSave /\ config = DefaultConfig

SpecShutdown == InitShutdown /\ [][NextShutdown]_vars

\* ------------------------------------------------------- chat participant
\* the host hands a request to the chat participant; the handler keeps
\* nothing between requests, so the first request stands for each of them
ChatRequest(request, workspace, commandsDir, availableCommands, found, match, model) ==
    /\ HostReady
    /\ chat = NoChat
    /\ chat' = chatRequestHandler(request, workspace, commandsDir,
                                  availableCommands, found, match, model)
    /\ UNCHANGED <<loaderVars, lintVars, ruleFile, hostVars, fresh, modeVars,
                   maxFilesToScan, scan, cli, codeActions, scanLoop, deactivated>>

PromptChars == {"/", " ", "T", "d", "-", "@"}
Prompts == UNION {[1..n -> PromptChars] : n \in 0..MaxPrompt}
ChatRequests ==
    {[prompt |-> p, command |-> c] :
        p \in Prompts, c \in {Undefined, Str(<<"d">>)}}
CommandDirs == {{}, {<<"d">>}, {<<"t">>, <<"-">>}}
RelativePaths == {<<"d">>, <<"d", " ", "/", "t">>}

NextChat ==
    /\ chat = NoChat
    /\ \E request \in ChatRequests, workspace \in BOOLEAN, commandsDir \in BOOLEAN,
          availableCommands \in CommandDirs, found \in 0..2,
          match \in RelativePaths, model \in BOOLEAN :
           ChatRequest(request, workspace, commandsDir, availableCommands,
                       found, match, model)

SpecChat == Init /\ [][NextChat]_vars

\* -------------------------------------------------------------- properties
UniqueIds(rs) == \A i, j \in 1..Len(rs) : i # j => rs[i].id # rs[j].id

\* C1: right after a load that failed, the active set returned by getRules()
\* is the previous-good snapshot, which is the complete list of the most
\* recent successful load (empty before the first one); it is not the list
\* the failed load had accumulated.
C1_FailedLoadRestoresSnapshot ==
    outcome = "failed" => rules = lastGoodRules /\ rules = lastSuccess

C1_Witness ==
    /\ outcome = "failed"
    /\ lastSuccess # <<>>
    /\ newRules # <<>>
    /\ newRules # lastSuccess

\* C2: a load that fails leaves the active set and the previous-good
\* snapshot as they were just before the load.
C2_FailedLoadChangesNothing ==
    [][outcome' = "failed" => rules' = rules /\ lastGoodRules' = lastGoodRules]_vars

\* C3: a structured file that does not parse aborts the whole load: the
\* load ends in the failure branch, the active set is the previous snapshot
\* and the error notification is shown.
C3_UnparseableFileAbortsLoad ==
    fileError => outcome = "failed" /\ errorShown /\ rules = lastSuccess

\* C4: a match pass in progress works on the list that is the active set,
\* the active set is always empty or the complete list of a finished load,
\* and after a successful load the active set and the snapshot hold the
\* rules that load accumulated.
C4_PassSeesCompleteList ==
    /\ rules \in {<<>>, lastSuccess}
    /\ pc # "idle" => lintRules = rules
    /\ outcome = "loaded" => rules = newRules /\ lastGoodRules = newRules

C4_Witness ==
    /\ pc = "while"
    /\ outcome = "failed"
    /\ lintRules # <<>>
    /\ newRules # <<>>
    /\ newRules # lintRules

\* C5: loading a structured file admits exactly the elements of its rules
\* array that have the rule shape (string id, severity error/warn/info,
\* string message, object match with a string pattern), in their order.
HasRuleShape(e) ==
    /\ e.k = "object"
    /\ e.id.k = "string"
    /\ e.severity \in {Str(<<"error">>), Str(<<"warn">>), Str(<<"info">>)}
    /\ e.message.k = "string"
    /\ e.match.k = "object"
    /\ e.match.regex.k = "string"

C5_ValidElementsInOrder ==
    (IsStructuredFile(ruleFile) /\ outcome # "none")
        => rules = SelectSeq(ruleFile.content.data.rules.v, HasRuleShape)

C5_Witness ==
    /\ IsStructuredFile(ruleFile)
    /\ outcome = "loaded"
    /\ ruleFile.content.data.rules.v = <<RuleBadSeverity, RuleA>>
    /\ rules = <<RuleA>>

\* C6: every rule of the active set has a match pattern that is a string
\* and is not empty.
C6_PatternNotEmpty ==
    \A i \in 1..Len(rules) :
        /\ rules[i].match.k = "object"
        /\ rules[i].match.regex.k = "string"
        /\ rules[i].match.regex.v # <<>>

LintPath == Documents[lintDoc].path
LintLanguage == Documents[lintDoc].languageId

\* indexes of the rules the lint call has dealt with so far
Processed ==
    IF lintDoc = 0 THEN {}
    ELSE IF pc = "idle" THEN 1..Len(lintRules)
    ELSE IF pc = "while" THEN 1..ruleIdx
    ELSE 1..(ruleIdx - 1)

\* the filter condition of the specification: languages, pathExclude, pathInclude
FilterAdmits(rule, filePath, languageId) ==
    /\ \/ rule.match.languages.k = "undefined"
       \/ rule.match.languages.v = <<>>
       \/ \E i \in 1..Len(rule.match.languages.v) : rule.match.languages.v[i] = languageId
    /\ ~\E i \in 1..Len(rule.match.pathExclude.v) :
           minimatch(filePath, rule.match.pathExclude.v[i])
    /\ \/ rule.match.pathInclude.k = "undefined"
       \/ rule.match.pathInclude.v = <<>>
       \/ \E i \in 1..Len(rule.match.pathInclude.v) :
             minimatch(filePath, rule.match.pathInclude.v[i])

\* the findings of a list that the rule at index i contributed
FindingsOf(ds, i) == SelectSeq(ds, LAMBDA d : d.ri = i)

\* C8: the matcher applies a rule to a document iff the languages filter
\* admits the language id, no pathExclude glob matches the path, and the
\* pathInclude filter is absent, empty or has a glob matching the path;
\* a rule that is not applied has no finding, so a path matching both a
\* pathExclude and a pathInclude glob yields none.
C8_AppliesIffFiltersAdmit ==
    /\ \A i \in Processed :
          i \in applied <=> FilterAdmits(lintRules[i], LintPath, LintLanguage)
    /\ \A k \in 1..Len(diagnostics) :
          FilterAdmits(lintRules[diagnostics[k].ri], LintPath, LintLanguage)
    /\ pc = "idle" /\ lintDoc # 0 =>
          \A k \in 1..Len(diagnosticCollection[lintDoc]) :
             FilterAdmits(lintRules[diagnosticCollection[lintDoc][k].ri],
                          LintPath, LintLanguage)

C8_Witness ==
    /\ pc = "idle"
    /\ lintDoc # 0
    /\ \E i, j \in 1..Len(lintRules) :
          /\ NonEmptyArray(lintRules[i].match.pathInclude)
          /\ minimatch(LintPath, lintRules[i].match.pathInclude.v[1])
          /\ NonEmptyArray(lintRules[i].match.pathExclude)
          /\ minimatch(LintPath, lintRules[i].match.pathExclude.v[1])
          /\ i \notin applied
          /\ FindingsOf(diagnosticCollection[lintDoc], i) = <<>>
          /\ j \in applied
          /\ FindingsOf(diagnosticCollection[lintDoc], j) # <<>>

\* C9: every match pass terminates: a lint call that has started reaches
\* its end, whatever the patterns and flags of the active rules.
C9_LintTerminates == (pc # "idle") ~> (pc = "idle")

\* the findings of one rule on a text, each exec starting where the last
\* match ended; fuel bounds the number of matches looked for
RECURSIVE FindAll(_, _, _, _, _, _)
FindAll(rule, ri, re, text, last, fuel) ==
    IF fuel = 0 THEN <<>>
    ELSE LET m == exec(re, text, last)
         IN  IF ~m.match THEN <<>>
             ELSE <<Diagnostic(rule, ri, text, m)>>
                  \o FindAll(rule, ri, re, text, m.lastIndex, fuel - 1)

Compiles(rule) == NewRegExp(rule.match.regex.v, FlagsOf(rule)).ok

\* what the rule at index i of the lint call contributes when run alone
AloneFindings(i) ==
    LET rule == lintRules[i]
    IN  IF ~FilterAdmits(rule, LintPath, LintLanguage) \/ ~Compiles(rule) THEN <<>>
        ELSE FindAll(rule, i, NewRegExp(rule.match.regex.v, FlagsOf(rule)),
                     lintText, 0, MaxFindings)

RECURSIVE Occurrences(_, _, _, _)
Occurrences(atoms, ignoreCase, text, p) ==
    LET Hits == {i \in p..Len(text) : MatchEnd(atoms, 1, text, i, ignoreCase) # -1}
    IN  IF Hits = {} THEN <<>>
        ELSE LET i == Min(Hits)
                 e == MatchEnd(atoms, 1, text, i, ignoreCase)
             IN  <<<<i, e>>>>
                 \o Occurrences(atoms, ignoreCase, text, IF e = i THEN e + 1 ELSE e)

\* one finding per occurrence of the pattern of the rule at index i of the
\* list rs in the text of document d, none when the rule is not applicable
\* to the document or does not compile
RuleFindings(rs, i, d, text) ==
    LET rule == rs[i]
        re == NewRegExp(rule.match.regex.v, FlagsOf(rule))
        occ == Occurrences(Atoms(re.source), re.ignoreCase, text, 0)
    IN  IF ~FilterAdmits(rule, Documents[d].path, Documents[d].languageId) \/ ~re.ok
        THEN <<>>
        ELSE [k \in 1..Len(occ) |->
                [start |-> positionAt(text, occ[k][1]),
                 end |-> positionAt(text, occ[k][2]),
                 message |-> rule.message.v,
                 severity |-> getSeverity(rule.severity.v),
                 code |-> rule.id.v,
                 ri |-> i,
                 fix |-> rule.fix]]

OccurrenceFindings(i) == RuleFindings(lintRules, i, lintDoc, lintText)

IsPrefix(s, t) == Len(s) <= Len(t) /\ \A k \in 1..Len(s) : s[k] = t[k]

\* C11: the findings a match pass has collected for a rule are the first
\* of the non-overlapping occurrences of its pattern, left to right, one
\* finding per occurrence with its span and the rule's id, severity and
\* message; a finished pass has published all of them, in rule order.
C11_OneFindingPerOccurrence ==
    lintDoc # 0 =>
        /\ \A i \in 1..Len(lintRules) :
              IsPrefix(FindingsOf(diagnostics, i), OccurrenceFindings(i))
        /\ (pc = "idle" /\ lintRules # <<>>) =>
              /\ \A i \in 1..Len(lintRules) :
                    FindingsOf(diagnosticCollection[lintDoc], i) = OccurrenceFindings(i)
              /\ \A k \in 1..(Len(diagnosticCollection[lintDoc]) - 1) :
                    diagnosticCollection[lintDoc][k].ri
                        <= diagnosticCollection[lintDoc][k + 1].ri

\* a lint call ends in this step
PassEnds == pc' = "idle" /\ (pc # "idle" \/ passTick' # passTick)

\* C12: a pass on a document that has been linted since its text and the
\* rule list last changed publishes the findings the document already has
\* (same count, spans and order, nothing accumulated), and a finished pass
\* leaves no regex, regex position or collected finding behind.
C12_RepeatedPassSameFindings ==
    [][PassEnds =>
          /\ fresh[lintDoc'] =>
                diagnosticCollection'[lintDoc'] = diagnosticCollection[lintDoc']
          /\ regex' = NoRegex /\ lastIndex' = 0 /\ diagnostics' = <<>>]_vars

C12_Witness ==
    /\ pc = "idle"
    /\ repeated
    /\ Len(diagnosticCollection[lintDoc]) >= 2

\* the document an edit changes in this step, and the document whose
\* debounce timeout fires in this step
Edited(d) == docText'[d] # docText[d]
Fired(d) == docText' = docText /\ liveTimers'[d] # liveTimers[d]

\* a lint call for document d on its current text starts in this step
PassStarts(d) ==
    /\ passTick' # passTick
    /\ lintDoc' = d
    /\ lintRules' = rules
    /\ rules # <<>> => lintText' = docText[d] /\ pc' = "for"

\* at most one debounce timeout is pending per document, the one in the map
OneTimerPerDocument ==
    \A d \in DocIds :
        /\ Cardinality(liveTimers[d]) <= 1
        /\ liveTimers[d] = IF changeDebounceTimers[d] = 0 THEN {}
                           ELSE {changeDebounceTimers[d]}

\* an edit of d starts no pass, leaves d with one pending timeout and
\* leaves the timeouts of the other documents alone
EditDebounced(d) ==
    /\ passTick' = passTick
    /\ Cardinality(liveTimers'[d]) = 1
    /\ \A e \in DocIds \ {d} :
          liveTimers'[e] = liveTimers[e]
          /\ changeDebounceTimers'[e] = changeDebounceTimers[e]

Opened(d) == d \in opened' \ opened
Saved(d) == save.phase = "writing" /\ save'.phase = "none" /\ save.doc = d

RECURSIVE FindingsUpTo(_, _, _, _)
FindingsUpTo(rs, n, d, text) ==
    IF n = 0 THEN <<>>
    ELSE FindingsUpTo(rs, n - 1, d, text) \o RuleFindings(rs, n, d, text)

AllFindings(rs, d, text) == FindingsUpTo(rs, Len(rs), d, text)

\* the rules watcher's callback starts, goes on to its next document, and
\* returns in this step
ReloadStarts == running = "none" /\ running' = "reloadAndLint"
ReloadNext == running = "reloadAndLint" /\ queue' # queue
ReloadReturns == running = "reloadAndLint" /\ running' = "none"

\* no event other than the callback's own passes is handled in this step
NoOtherEvent ==
    UNCHANGED <<rules, docText, opened, liveTimers, changeDebounceTimers, save,
                config, temporarilyDisabled>>

Count(ds, severity) == Len(SelectSeq(ds, LAMBDA x : x.severity = severity))

\* a save of document d is attempted in this step
Attempted(d) == save.phase = "none" /\ save'.phase # "none" /\ save'.doc = d

\* the decision of the specification for a document with findings ds
ShouldBlock(ds) ==
    \/ config.blockSaveOnErrors /\ Count(ds, "Error") > 0
    \/ config.blockSaveOnWarnings /\ Count(ds, "Warning") > 0

\* C16: a save attempt is allowed without a prompt exactly when the
\* extension is not enabled, or is disabled for the session, or neither
\* blockSaveOnErrors with an Error finding nor blockSaveOnWarnings with a
\* Warning finding of the document holds; otherwise the save is suspended
\* and the prompt is shown.  Information findings never block.
C16_AllowIffNotBlocking ==
    [][\A d \in DocIds :
          Attempted(d) =>
              /\ save'.phase \in {"writing", "prompt"}
              /\ save'.phase = "writing" <=>
                    \/ ~config.enabled
                    \/ temporarilyDisabled
                    \/ ~ShouldBlock(diagnosticCollection[d])]_vars

C16_Witness ==
    /\ save.phase = "writing"
    /\ save.choice = "none"
    /\ config.enabled
    /\ ~temporarilyDisabled
    /\ config.blockSaveOnErrors
    /\ config.blockSaveOnWarnings
    /\ Count(diagnosticCollection[save.doc], "Information") > 0
    /\ Len(diagnosticCollection[save.doc]) = Count(diagnosticCollection[save.doc], "Information")

\* C17: a save attempt on a document whose current text has a match of an
\* applicable error rule of the active set is suspended when the extension
\* is enabled, not disabled for the session, and blockSaveOnErrors is set.
C17_DecisionUsesCurrentText ==
    [][\A d \in DocIds :
          (/\ Attempted(d)
           /\ config.enabled
           /\ ~temporarilyDisabled
           /\ config.blockSaveOnErrors
           /\ Count(AllFindings(rules, d, docText[d]), "Error") > 0)
              => save'.phase = "prompt"]_vars

\* the prompt or the reason input of a suspended save is open
Deciding == save.phase \in {"prompt", "reason"}

\* C18: a suspended save for which override was not allowed offers no
\* override and ends aborted, whatever the answer to the prompt: by
\* fix-now, by cancel or by dismissal, with the stored content unchanged.
C18_NoOverrideAlwaysAborts ==
    [][(Deciding /\ ~save.allowOverride) =>
          /\ save'.phase \in {"prompt", "none"}
          /\ save'.phase = "none" => save'.choice \in {"Fix Now", "Cancel", "undefined"}
          /\ disk' = disk]_vars

C18_Witness ==
    /\ save.phase = "none"
    /\ save.violationCount > 0
    /\ ~save.allowOverride
    /\ save.choice = "undefined"
    /\ config.requireOverrideReason
    /\ disk[save.doc] # docText[save.doc]

\* a reason that showInputBox returned is a non-empty text
NonEmptyReason(reason) == reason.k = "string" /\ reason.v # <<>>

\* C19: a suspended save goes on to the write only by the override choice,
\* with a non-empty reason if one was required; fix-now, cancel, dismissal
\* and a missing or empty required reason abort it; the stored content of a
\* document changes only in a write, so an aborted save leaves it as it was.
C19_ProceedsOnlyByOverride ==
    [][/\ (Deciding /\ save'.phase = "writing") =>
             /\ save'.choice = "Override & Save"
             /\ save.requireReason => NonEmptyReason(save'.reason)
       /\ (save.phase = "prompt" /\ save'.phase # "prompt"
            /\ save'.choice # "Override & Save") =>
             save'.phase = "none" /\ disk' = disk
       /\ (save.phase = "reason" /\ save'.phase # "reason"
            /\ ~NonEmptyReason(save'.reason)) =>
             save'.phase = "none" /\ disk' = disk
       /\ disk' # disk => save.phase = "writing" /\ save'.phase = "none"]_vars

C19_Witness ==
    /\ save.phase = "none"
    /\ save.violationCount > 0
    /\ save.choice = "Override & Save"
    /\ save.requireReason
    /\ save.reason = Str(<<>>)
    /\ disk[save.doc] # docText[save.doc]

\* C20: a suspended save that goes on to the write by override has written
\* one log line with the reason and the violation count, whether or not a
\* reason is required.
C20_OverrideIsLogged ==
    (save.phase = "writing" /\ save.choice = "Override & Save") =>
        /\ Len(overrideLog) = 1
        /\ overrideLog[1].reason = save.reason
        /\ overrideLog[1].violationCount = save.violationCount

\* resolve and reject have not been called while the prompt or the input
\* is open, and exactly one of them has been called once afterwards
SettledOnce ==
    /\ Deciding => save.resolves = 0 /\ save.rejects = 0
    /\ (~Deciding /\ save.violationCount > 0) => save.resolves + save.rejects = 1

\* C21: a suspended save is eventually settled, whatever the answer to the
\* prompt and to the reason input is, and it is settled exactly once:
\* either resolve or reject is called, once.
C21_SuspendedSaveSettledOnce == []SettledOnce /\ (Deciding ~> ~Deciding)

C21_Witness ==
    /\ save.phase = "none"
    /\ save.violationCount > 0
    /\ save.choice = "Override & Save"
    /\ save.reason = Undefined
    /\ save.rejects = 1
    /\ save.resolves = 0

\* the last mode command to complete, with no other mode-change operation
\* started or in progress since it started, is the command `name`
Completed(name) == lastCommand.name = name

\* the settings Enable Strict Mode writes
StrictSettings ==
    /\ config.enabled
    /\ config.blockSaveOnErrors
    /\ config.allowSaveOverride
    /\ config.requireOverrideReason

\* a save suspended with override allowed and a reason required goes on to
\* the write only by the override choice with a non-empty reason
OverrideNeedsReason ==
    (Deciding /\ save.allowOverride /\ save.requireReason /\ save'.phase = "writing") =>
        save'.choice = "Override & Save" /\ NonEmptyReason(save'.reason)

\* C22: after Enable Strict Mode completes, whatever the settings and the
\* session flag were before, a save attempt on a document with an Error
\* finding is suspended with override offered and a reason required, and
\* the override goes on to the write only with a non-empty reason.
C22_EnableStrictModeBlocks ==
    [][/\ \A d \in DocIds :
             (/\ Completed("enableStrictMode")
              /\ Attempted(d)
              /\ Count(diagnosticCollection[d], "Error") > 0)
                 => /\ save'.phase = "prompt"
                    /\ save'.allowOverride
                    /\ save'.requireReason
       /\ OverrideNeedsReason]_vars

\* C22 amended: after Enable Strict Mode completes the four settings it
\* writes are set; while the extension is not disabled for the session, a
\* save attempt on a document with an
\* Error finding is suspended with override offered and a reason required,
\* and the override goes on to the write only with a non-empty reason.
C22_EnableStrictModeBlocksUnlessSessionDisabled ==
    [][/\ Completed("enableStrictMode") => StrictSettings
       /\ \A d \in DocIds :
             (/\ Completed("enableStrictMode")
              /\ ~temporarilyDisabled
              /\ Attempted(d)
              /\ Count(diagnosticCollection[d], "Error") > 0)
                 => /\ save'.phase = "prompt"
                    /\ save'.allowOverride
                    /\ save'.requireReason
       /\ OverrideNeedsReason]_vars

C22_Witness ==
    /\ Completed("enableStrictMode")
    /\ ~temporarilyDisabled
    /\ save.phase = "reason"
    /\ save.requireReason
    /\ Count(diagnosticCollection[save.doc], "Error") > 0

\* C23: after Disable Strict Mode completes, whatever the settings were
\* before, neither blocking setting is set and every save attempt goes on
\* to the write without a prompt, whatever findings the document has,
\* until another mode-change operation is invoked.
C23_DisableStrictModeNeverBlocks ==
    [][Completed("disableStrictMode") =>
          /\ ~config.blockSaveOnErrors
          /\ ~config.blockSaveOnWarnings
          /\ \A d \in DocIds : Attempted(d) => save'.phase = "writing"]_vars

C23_Witness ==
    /\ Completed("disableStrictMode")
    /\ config.enabled
    /\ ~temporarilyDisabled
    /\ save.phase = "writing"
    /\ save.violationCount = 0
    /\ Count(diagnosticCollection[save.doc], "Error") > 0
    /\ Count(diagnosticCollection[save.doc], "Warning") > 0

\* C24: after a Toggle Save Blocking that reports "disabled" no save
\* attempt is suspended; after one that reports "enabled" a save attempt
\* on a document with an Error finding is suspended, the extension being
\* enabled and not disabled for the session.
C24_ToggleSwitchesBlocking ==
    [][\A d \in DocIds :
          /\ (lastCommand.message = "Save blocking disabled" /\ Attempted(d))
                => save'.phase = "writing"
          /\ (/\ lastCommand.message = "Save blocking enabled"
              /\ Attempted(d)
              /\ config.enabled
              /\ ~temporarilyDisabled
              /\ Count(diagnosticCollection[d], "Error") > 0)
                => save'.phase = "prompt"]_vars

\* the mode the documentation names for the settings and the session flag
DocumentedMode ==
    IF ~config.enabled \/ temporarilyDisabled THEN "Agent Rules: Disabled"
    ELSE IF ~config.blockSaveOnErrors /\ ~config.blockSaveOnWarnings
         THEN "Agent Rules: Passive"
    ELSE IF config.blockSaveOnErrors /\ config.allowSaveOverride
            /\ config.requireOverrideReason
         THEN "Agent Rules: Strict"
    ELSE "Agent Rules: Active"

\* C25: whenever the status bar item is shown its text names the current
\* mode: Disabled when the extension is not enabled or is disabled for the
\* session, Passive when no blocking setting is set, Strict when saves are
\* blocked on errors and override is allowed only with a reason (the
\* settings Enable Strict Mode writes), Active otherwise.
C25_StatusBarNamesMode ==
    statusBar.shown => statusBar.text = DocumentedMode

\* C26: a workspace scan runs a match pass on min(limit, files) files,
\* where limit is the maxFilesToScan setting at the time of the scan and
\* files is the number of eligible files of the workspace.
C26_ScanHonoursLimit ==
    (scan.done /\ scan.folder) => scan.linted = Min({scan.limit, scan.files})

\* the rules the script loads in the run, none if loading threw
CheckRulesLoaded ==
    IF checkRulesLoadRules(cli.dir).threw THEN <<>> ELSE checkRulesLoadRules(cli.dir).rules

\* the files the script scans
CheckRulesScanned ==
    {k \in 1..Len(cli.files) :
        \A i \in 1..(Len(cli.files[k].path) - 1) :
            cli.files[k].path[i] \notin {"node_modules", ".git", "dist", "build", "out"}}

\* a rule the script loaded has a finding in a scanned file: the rule is
\* an object with a match, its path filters admit the file, its pattern
\* compiles and occurs in the text
CheckRulesFinding(k, rule) ==
    /\ cli.files[k].readable
    /\ rule.k = "object"
    /\ rule.match.k = "object"
    /\ checkRulesShouldApplyRule(rule, cli.files[k].path).applies
    /\ \E re \in {NewRegExp(checkRulesSource(rule), FlagsOf(rule))} :
          /\ re.ok
          /\ Occurrences(Atoms(re.source), re.ignoreCase, cli.files[k].text, 0) # <<>>

\* a finding of a rule whose severity is in S exists in the scanned project
CheckRulesFindings(S) ==
    \E k \in CheckRulesScanned :
        \E i \in 1..Len(CheckRulesLoaded) :
            /\ CheckRulesLoaded[i].k = "object"
            /\ CheckRulesLoaded[i].severity \in S
            /\ CheckRulesFinding(k, CheckRulesLoaded[i])

\* an exception leaves the script: a file or directory that cannot be
\* read, a structured rules file that does not parse, or a loaded element
\* that is not an object with a match, met when a file is checked
CheckRulesThrows ==
    \/ checkRulesLoadRules(cli.dir).threw
    \/ /\ CheckRulesLoaded # <<>>
       /\ \E k \in CheckRulesScanned :
             \/ ~cli.files[k].readable
             \/ \E i \in 1..Len(CheckRulesLoaded) :
                   CheckRulesLoaded[i].k # "object" \/ CheckRulesLoaded[i].match.k # "object"

C28_ExitOneOnAnyViolation ==
    (cli.exited /\ CheckRulesFindings({Str(<<"error">>), Str(<<"warn">>), Str(<<"info">>)}))
        => cli.code = 1

\* the rule the provider looks up for a diagnostic of the linter: the
\* first active rule with the id the diagnostic carries
HasRule(diagnostic) ==
    /\ diagnostic.ri # 0
    /\ diagnostic.code # <<>>
    /\ \E i \in 1..Len(rules) : rules[i].id.v = diagnostic.code
RuleOf(diagnostic) ==
    rules[CHOOSE i \in 1..Len(rules) :
            /\ rules[i].id.v = diagnostic.code
            /\ \A j \in 1..(i - 1) : rules[j].id.v # diagnostic.code]

\* the actions of the last request that were made for a diagnostic
ActionsFor(diagnostic) ==
    {j \in 1..Len(codeActions.actions) : codeActions.actions[j].diagnostic = diagnostic}

\* C29: for a finding whose rule declares the fix kind replace without a
\* replacement text, no quick fix is offered.
C29_ReplaceWithoutTextYieldsNoAction ==
    \A k \in 1..Len(codeActions.context) :
        (/\ HasRule(codeActions.context[k])
         /\ RuleOf(codeActions.context[k]).fix.k = "object"
         /\ RuleOf(codeActions.context[k]).fix.kind = Str(<<"replace">>)
         /\ RuleOf(codeActions.context[k]).fix.replaceWith = Undefined)
            => ActionsFor(codeActions.context[k]) = {}

\* the offset of a position of a text
OffsetOf(text, position) ==
    CHOOSE o \in 0..Len(text) : positionAt(text, o) = position

\* the fix is one of the three kinds with the text it needs
FixHasEdit(fix) ==
    /\ fix.k = "object"
    /\ \/ fix.kind = Str(<<"replace">>) /\ fix.replaceWith.k = "string"
       \/ fix.kind = Str(<<"delete">>)
       \/ fix.kind = Str(<<"insert">>) /\ fix.insertText.k = "string"

\* the rule has no fix, or a fix of another kind than the three
FixHasNoKind(fix) ==
    \/ fix.k # "object"
    \/ fix.kind \notin {Str(<<"replace">>), Str(<<"delete">>), Str(<<"insert">>)}

\* the text with the span [s, e] edited as the fix says
SpanEdited(text, s, e, fix) ==
    CASE fix.kind = Str(<<"replace">>) ->
            SubSeq(text, 1, s) \o fix.replaceWith.v \o SubSeq(text, e + 1, Len(text))
      [] fix.kind = Str(<<"delete">>) ->
            SubSeq(text, 1, s) \o SubSeq(text, e + 1, Len(text))
      [] fix.kind = Str(<<"insert">>) /\ fix.position = Str(<<"end">>) ->
            SubSeq(text, 1, e) \o fix.insertText.v \o SubSeq(text, e + 1, Len(text))
      [] fix.kind = Str(<<"insert">>) /\ fix.position \in {Undefined, Str(<<"start">>)} ->
            SubSeq(text, 1, s) \o fix.insertText.v \o SubSeq(text, s + 1, Len(text))

\* C30: for a finding with span [s, e] of the text, the edit of its quick
\* fix turns the text into text[0..s) + X + text[e..] for replace with X,
\* text[0..s) + text[e..] for delete, and the text with T inserted at s
\* (position start or omitted) or at e (position end) for insert with T,
\* with everything outside the span unchanged; every such finding gets one
\* quick fix, and a finding whose rule has no fix or a fix of another kind
\* gets none.
C30_EditChangesExactlyTheSpan ==
    /\ \A k \in 1..Len(codeActions.context) :
          HasRule(codeActions.context[k]) =>
             /\ FixHasEdit(RuleOf(codeActions.context[k]).fix)
                   => Cardinality(ActionsFor(codeActions.context[k])) = 1
             /\ FixHasNoKind(RuleOf(codeActions.context[k]).fix)
                   => ActionsFor(codeActions.context[k]) = {}
    /\ \A j \in 1..Len(codeActions.actions) :
          \E a \in {codeActions.actions[j]} :
             /\ HasRule(a.diagnostic)
             /\ ~FixHasNoKind(RuleOf(a.diagnostic).fix)
             /\ (codeActions.fresh /\ FixHasEdit(RuleOf(a.diagnostic).fix)) =>
                   ApplyEdit(codeActions.text, a.edit)
                      = SpanEdited(codeActions.text,
                                OffsetOf(codeActions.text, a.diagnostic.start),
                                OffsetOf(codeActions.text, a.diagnostic.end),
                                RuleOf(a.diagnostic).fix)

C30_Witness ==
    /\ codeActions.doc = 2
    /\ codeActions.fresh
    /\ codeActions.text = <<"x", "\n">> \o pTODO
    /\ docText[2] = <<"x", "\n">> \o pTODO \o FixX
    /\ Len(codeActions.actions) = 1
    /\ RuleOf(codeActions.actions[1].diagnostic).fix.kind = Str(<<"insert">>)
\* ------------------------------------------------------------------- C31
\* where a token /name stands in s: a slash at the start or directly after
\* whitespace, followed by a word character or a dash
SlashTokens(s) ==
    {k \in 1..Len(s) : /\ s[k] = "/"
                       /\ k = 1 \/ IsSpace(s[k - 1])
                       /\ k + 1 <= Len(s)
                       /\ IsNameChar(s[k + 1])}

\* the name of the last such token, lowercased; undefined if there is none
LastSlashToken(s) ==
    IF SlashTokens(s) = {} THEN Undefined
    ELSE LET k == Max(SlashTokens(s))
             e == Max({j \in (k + 1)..Len(s) : \A i \in (k + 1)..j : IsNameChar(s[i])})
         IN  Str(StringToLowerCase(SubSeq(s, k + 1, e)))

\* the handler has got as far as determining the command
Determined ==
    chat.reply \in {"Available slash commands", "Command not found",
                    "No language model available", "response"}

\* C31: extraction returns the lowercased name of the last token /name that
\* stands at the start of the prompt or directly after whitespace, and
\* nothing when there is none (a lone slash is no token); the chat
\* participant, left by the host to find the command in the prompt, resolves
\* the prompt to the command extraction returns.
C31_ChatResolvesExtractedCommand ==
    chat.reply # "none" =>
        /\ extractLastSlashCommand(chat.prompt) = LastSlashToken(chat.prompt)
        /\ (Determined /\ chat.command = Undefined) =>
              chat.commandName = extractLastSlashCommand(chat.prompt)

\* C31, amended: extraction is as stated.  The chat participant takes a
\* command named by the host as it is; otherwise it resolves the prompt, with
\* its @ references rewritten (a prompt with none stays as it is), to the
\* command extraction returns if that command is among the available
\* command files, and to no command if it is not.
C31_ChatResolvesAvailableExtractedCommand ==
    chat.reply # "none" =>
        /\ extractLastSlashCommand(chat.prompt) = LastSlashToken(chat.prompt)
        /\ matchAllAt(chat.prompt, 1) = <<>> => chat.normalizedPrompt = chat.prompt
        /\ Determined =>
              chat.commandName =
                  IF chat.command # Undefined THEN chat.command
                  ELSE IF /\ LastSlashToken(chat.normalizedPrompt) # Undefined
                          /\ LastSlashToken(chat.normalizedPrompt).v
                                \in chat.availableCommands
                       THEN LastSlashToken(chat.normalizedPrompt)
                  ELSE Undefined

\* "/ /T" with the commands t and - available and no command named by the
\* host: the lone slash is passed over and the request is answered with t
C31_Witness ==
    /\ chat.prompt = <<"/", " ", "/", "T">>
    /\ chat.command = Undefined
    /\ chat.availableCommands = {<<"t">>, <<"-">>}
    /\ chat.commandName = Str(<<"t">>)
    /\ chat.reply = "response"

\* ------------------------------------------------------------------- C32
\* C32: a load that finds the rules directory missing leaves the active set
\* empty and raises no error; the notice about the missing directory is
\* shown by the first such load of the loader and by no other load.
C32_MissingDirNoticeOnce ==
    [][/\ outcome' = "missing" => (rules' = <<>> /\ ~errorShown'
                                   /\ hasShownMissingFolderInfo')
       /\ hasShownMissingFolderInfo => hasShownMissingFolderInfo'
       /\ (hasShownMissingFolderInfo' /\ ~hasShownMissingFolderInfo)
             => outcome' = "missing"
       /\ infoShown' <=> (outcome' = "missing" /\ ~hasShownMissingFolderInfo)
      ]_vars

\* a later load finds the directory missing again, after rules had been
\* loaded in between: nothing is shown and the active set is empty
C32_Witness ==
    /\ outcome = "missing"
    /\ hasShownMissingFolderInfo
    /\ ~infoShown
    /\ lastGoodRules # <<>>
    /\ rules = <<>>

\* ------------------------------------------------------------- C33, C34
\* the lines of the loaded text file, the id of a rule of line n, the rules
\* of the active set with that id and the warnings logged for that line
FileLines == SplitOn(ruleFile.content.text, "\n")
LineId(n) == Str(<<ruleFile.name, ruleFile.ext, "-line", NumToString(n)>>)
RulesOfLine(n) == SelectSeq(rules, LAMBDA r : r.id = LineId(n))
WarningsOfLine(n) == {w.warning : w \in {x \in lineWarnings : x.line = n}}

IsSeverityToken(c) == ToLowerCase(c) \in {"error", "warn", "info"}
BlankOrComment(t) == t = <<>> \/ t[1] = "#"
FirstSep(t) == Min({i \in 1..Len(t) : SepAt(t, i)})
BeforeFirstSep(t) == SubSeq(t, 1, FirstSep(t) - 1)
AfterFirstSep(t) == SubSeq(t, FirstSep(t) + 2, Len(t))

\* the rule a line-based file gives for its line n
LineRule(n, severity, message, pattern) ==
    RuleObj(LineId(n), Str(<<severity>>), Str(message),
            MatchObj(Str(pattern), Undefined, Undefined, Undefined, Undefined))

\* t has the form  severity: message :: pattern  with a message and a
\* pattern of at least one character each
SeverityForm(t) ==
    /\ Len(t) >= 2
    /\ IsSeverityToken(t[1])
    /\ t[2] = ":"
    /\ \E i \in 4..(Len(t) - 2) : SepAt(t, i)

TextFileLoaded == IsTextFile(ruleFile) /\ outcome # "none"

\* C33: a line that is neither blank nor a comment, contains :: and has no
\* leading severity token gives one warn rule whose message is the text
\* before the first :: and whose pattern is all that follows the first ::,
\* trimmed, also when the pattern contains ::; only a line with no :: at all
\* is skipped with a warning.
C33_SplitsOnFirstSeparator ==
    TextFileLoaded =>
        \A n \in 1..Len(FileLines) :
            \E t \in {Trim(FileLines[n])} :
                ~BlankOrComment(t) =>
                    /\ (IncludesSep(t) /\ ~IsSeverityToken(t[1])) =>
                          RulesOfLine(n) = <<LineRule(n, "warn", Trim(BeforeFirstSep(t)),
                                                      Trim(AfterFirstSep(t)))>>
                    /\ WarningsOfLine(n) # {} <=> ~IncludesSep(t)

\* C33, amended: a line that is neither blank nor a comment and has not the
\* form  severity: message :: pattern  gives one warn rule, with the trimmed
\* text before the :: as message and the trimmed text after it as pattern,
\* when it contains :: and the text after the first :: contains no further
\* ::; when that text contains :: again the line gives no rule and is logged
\* as an invalid rule format, and a line with no :: gives no rule and is
\* logged as skipped.  A line that gives a rule is not logged.
C33_SplitsOnOnlySeparator ==
    TextFileLoaded =>
        \A n \in 1..Len(FileLines) :
            \E t \in {Trim(FileLines[n])} :
                (~BlankOrComment(t) /\ ~SeverityForm(t)) =>
                    IF ~IncludesSep(t)
                    THEN /\ RulesOfLine(n) = <<>>
                         /\ WarningsOfLine(n) = {"Skipping line without :: separator"}
                    ELSE IF IncludesSep(AfterFirstSep(t))
                    THEN /\ RulesOfLine(n) = <<>>
                         /\ WarningsOfLine(n) = {"Invalid rule format"}
                    ELSE /\ RulesOfLine(n) = <<LineRule(n, "warn", Trim(BeforeFirstSep(t)),
                                                        Trim(AfterFirstSep(t)))>>
                         /\ WarningsOfLine(n) = {}

\* a file whose first line holds :: twice and whose second line holds it
\* once: one warn rule, of line 2, and one warning, about line 1
C33_Witness ==
    /\ TextFileLoaded
    /\ FileLines = << <<"a", ":", ":", "b", ":", ":", "c">>,
                      <<"m", " ", ":", ":", " ", "a">> >>
    /\ rules = <<LineRule(2, "warn", <<"m">>, <<"a">>)>>
    /\ {w.line : w \in lineWarnings} = {1}

\* the text of t after its leading severity token and the colon, if any
AfterSeverity(t) ==
    IF Len(t) >= 2 /\ t[2] = ":" THEN SubSeq(t, 3, Len(t)) ELSE SubSeq(t, 2, Len(t))

NonBlank(s) == Trim(s) # <<>>

\* the rules of the active set carry ids of lines of the file, in the order
\* of the lines
IdsAreLineNumbers ==
    \E f \in [1..Len(rules) -> 1..Len(FileLines)] :
        /\ \A j \in 1..Len(rules) : rules[j].id = LineId(f[j])
        /\ \A i, j \in 1..Len(rules) : i < j => f[i] < f[j]

\* C34: a line  severity message :: pattern, with the severity token in any
\* letter case and a colon after it or not, gives a rule with that severity
\* in lower case and a message that does not hold the token; blank lines and
\* comment lines give no rule; the id of a rule is <filename>-line<N> with N
\* the 1-based number of its line.
C34_SeverityLineWithOptionalColon ==
    TextFileLoaded =>
        /\ IdsAreLineNumbers
        /\ \A n \in 1..Len(FileLines) :
              \E t \in {Trim(FileLines[n])} :
                  /\ BlankOrComment(t) => RulesOfLine(n) = <<>>
                  /\ (/\ ~BlankOrComment(t)
                      /\ IsSeverityToken(t[1])
                      /\ IncludesSep(AfterSeverity(t))
                      /\ NonBlank(BeforeFirstSep(AfterSeverity(t)))
                      /\ NonBlank(AfterFirstSep(AfterSeverity(t)))) =>
                        /\ Len(RulesOfLine(n)) = 1
                        /\ RulesOfLine(n)[1].severity = Str(<<ToLowerCase(t[1])>>)
                        /\ \A k \in 1..Len(RulesOfLine(n)[1].message.v) :
                              RulesOfLine(n)[1].message.v[k] # t[1]

\* C34, amended: a line  severity: message :: pattern, with the severity
\* token in any letter case, the colon after it, and a message that is not
\* blank, gives the rule with that severity in lower case, the trimmed text
\* between the colon and the first :: as message and the trimmed text after
\* that :: as pattern.  A line whose severity token has no colon after it is
\* treated as a line without severity: with one ::, it gives a warn rule
\* whose message starts with the token.  Blank lines and comment lines give
\* no rule, and ids are <filename>-line<N> with N the 1-based line number.
C34_SeverityLineWithColon ==
    TextFileLoaded =>
        /\ IdsAreLineNumbers
        /\ \A n \in 1..Len(FileLines) :
              \E t \in {Trim(FileLines[n])} :
                  /\ BlankOrComment(t) => RulesOfLine(n) = <<>>
                  /\ (/\ ~BlankOrComment(t)
                      /\ IsSeverityToken(t[1])
                      /\ Len(t) >= 2 /\ t[2] = ":"
                      /\ IncludesSep(AfterSeverity(t))
                      /\ NonBlank(BeforeFirstSep(AfterSeverity(t)))
                      /\ AfterFirstSep(AfterSeverity(t)) # <<>>) =>
                        RulesOfLine(n) =
                            <<LineRule(n, ToLowerCase(t[1]),
                                       Trim(BeforeFirstSep(AfterSeverity(t))),
                                       Trim(AfterFirstSep(AfterSeverity(t))))>>
                  /\ (/\ ~BlankOrComment(t)
                      /\ IsSeverityToken(t[1])
                      /\ ~(Len(t) >= 2 /\ t[2] = ":")
                      /\ IncludesSep(t)
                      /\ ~IncludesSep(AfterFirstSep(t))) =>
                        RulesOfLine(n) = <<LineRule(n, "warn", Trim(BeforeFirstSep(t)),
                                                    Trim(AfterFirstSep(t)))>>

\* a comment line followed by " Warn:n::a": one rule, of line 2, with the
\* severity in lower case
C34_Witness ==
    /\ TextFileLoaded
    /\ FileLines = << <<"#", " ", "m", " ", ":", ":", " ", "a">>,
                      <<" ", "Warn", ":", "n", ":", ":", "a">> >>
    /\ rules = <<LineRule(2, "warn", <<"n">>, <<"a">>)>>

\* ------------------------------------------------------------------- C35
\* C35: once deactivate has run, no debounce timeout is pending, the timer
\* map is empty and the diagnostics of every document are cleared; no match
\* pass runs any more and no diagnostics are published.
C35_ShutdownIsFinal ==
    deactivated =>
        /\ \A d \in DocIds : liveTimers[d] = {} /\ changeDebounceTimers[d] = 0
        /\ \A d \in DocIds : diagnosticCollection[d] = <<>>
        /\ pc = "idle"

\* what holds of the timeouts: none is pending after deactivate, and a pass
\* that runs afterwards is one of the scan loop
ShutdownClearsTimers ==
    deactivated =>
        /\ \A d \in DocIds : liveTimers[d] = {} /\ changeDebounceTimers[d] = 0
        /\ pc # "idle" => cause = "scan"

\* ------------------------------------------------------------------- C36
\* C36: the active set is empty or is the previous-good snapshot, rule for
\* rule and in the same order, and the snapshot is the list of the most
\* recent load that ended in the success branch, empty before the first.
C36_ActiveIsEmptyOrSnapshot ==
    /\ rules = <<>> \/ rules = lastGoodRules
    /\ lastGoodRules = lastSuccess

\* the directory goes missing for the first time after rules were loaded:
\* the active set is empty and the snapshot still holds those rules
C36_Witness ==
    /\ outcome = "missing"
    /\ infoShown
    /\ rules = <<>>
    /\ Len(lastGoodRules) >= 2
    /\ lastGoodRules = lastSuccess

\* ------------------------------------------------------------------- C37
\* C37: whatever settings changes, mode commands and session-disable
\* toggles happen while a block prompt is pending, a suspended save goes on
\* to the write by override only while allowSaveOverride is true, and
\* without a non-empty reason only while requireOverrideReason is false.
C37_OverrideObeysCurrentSettings ==
    [][(Deciding /\ save'.phase = "writing") =>
          /\ save'.choice = "Override & Save" => config.allowSaveOverride
          /\ config.requireOverrideReason => NonEmptyReason(save'.reason)]_vars




\* the rule that produced a finding, as far as a quick fix depends on it:
\* its message and its fix
ProducingRule(diagnostic) ==
    [message |-> Str(diagnostic.message), fix |-> diagnostic.fix]

\* C38: every quick fix offered for a finding is the one synthesized from
\* the fix of the rule that produced the finding, for every active set,
\* sets in which two rules share an id included, and after any reload of
\* the rules between the match pass and the request.
C38_FixIsOfProducingRule ==
    \A j \in 1..Len(codeActions.actions) :
        /\ codeActions.actions[j].diagnostic.fix.k = "object"
        /\ codeActions.actions[j]
              = createFixAction(codeActions.actions[j].diagnostic,
                                ProducingRule(codeActions.actions[j].diagnostic))


\* the editor has loaded the rules directory and linted document d with
\* the active set, and the script has been run on the file of d
BothChecked(d) ==
    /\ outcome # "none"
    /\ d \in opened
    /\ fresh[d]
    /\ pc = "idle"
    /\ cli.dir = EquivDir
    /\ cli.files = <<FileOf(d)>>

\* the severities of the violations checkFile pushes, as the editor names them
ViolationSeverities(violations) ==
    [k \in 1..Len(violations) |-> getSeverity(violations[k].v)]
DiagnosticSeverities(ds) == [k \in 1..Len(ds) |-> ds[k].severity]

\* C39: for the same rules tree and the same file content the script and
\* the editor engine load the same rule set and report the same findings:
\* the script's load does not end in an exception, its rules are the
\* editor's active set, and its violations of the file are, severity by
\* severity, the diagnostics of the document.
C39_ScriptAgreesWithEditor ==
    \A d \in EquivDocs :
        BothChecked(d) =>
            \E l \in {checkRulesLoadRules(cli.dir)} :
                /\ ~l.threw
                /\ l.rules = rules
                /\ \E c \in {checkFile(cli.files[1], l.rules,
                                       [threw |-> FALSE, hangs |-> FALSE,
                                        violations |-> <<>>])} :
                      /\ ~c.threw
                      /\ ~c.hangs
                      /\ ViolationSeverities(c.violations)
                            = DiagnosticSeverities(diagnosticCollection[d])


\* the settings after all updates of a command body, from the settings cfg
RECURSIVE Updated(_, _)
Updated(cfg, updates) ==
    IF updates = <<>> THEN cfg
    ELSE Updated([cfg EXCEPT ![Head(updates)[1]] = Head(updates)[2]], Tail(updates))

\* what a save attempt of document d is decided to under the settings cfg:
\* allowed, or suspended with the override policy of cfg
DecidedUnder(cfg, d) ==
    IF \/ ~cfg.enabled
       \/ temporarilyDisabled
       \/ ~((cfg.blockSaveOnErrors /\ CountSeverity(diagnosticCollection[d], "Error") > 0)
            \/ (cfg.blockSaveOnWarnings
                /\ CountSeverity(diagnosticCollection[d], "Warning") > 0))
    THEN Allowed(d)
    ELSE Suspended(d, cfg.allowSaveOverride, cfg.requireOverrideReason,
                   CountSeverity(diagnosticCollection[d], "Error")
                       + CountSeverity(diagnosticCollection[d], "Warning"))

\* a save is attempted while Enable Strict Mode is running
SaveAttemptedInCommand ==
    /\ save.phase = "none"
    /\ save'.phase # "none"
    /\ command["enableStrictMode"].step > 0

\* C40: a save attempted while Enable Strict Mode runs is decided either
\* as under the settings that held when the command started or as under
\* the Strict settings, never as under an intermediate combination only.
\* The settings at the start of the command are the default settings, or
\* the Strict settings when the command has run before; the Strict
\* settings are the current ones with all updates of the command applied.
C40_SaveDecidedBeforeOrAfterCommand ==
    [][SaveAttemptedInCommand =>
          save' \in {DecidedUnder(DefaultConfig, save'.doc),
                     DecidedUnder(Updated(config, enableStrictMode.updates),
                                  save'.doc)}]_vars

====
